---- MODULE Spec2Model ----
(***************************************************************************)
(* Model of the classical-catalog admin tool: the access gate, the track   *)
(* reconciliation endpoint, the catalog write operations and the save /    *)
(* unlink workflows of the admin table.                                    *)
(*                                                                         *)
(* Text values on which the code computes (identifiers, names, catalog     *)
(* systems, request bodies) are sequences of one-character strings; text   *)
(* that is only stored and compared is a plain string.                     *)
(***************************************************************************)
EXTENDS Integers, Sequences, FiniteSets, TLC

VARIABLES
    store,      \* the Catalog Store: one sequence of rows per table
    resp,       \* the outcome of the latest server operation
    reqs,       \* the external requests the latest server operation issued
    ncalls,     \* number of server operations invoked directly so far
    tracks,     \* AlbumTracksTable state `tracks` (useState, line 32)
    wf,         \* per track: the running handleSaveTrack / handleUnlink
    clicks      \* number of Save / Unlink clicks so far

vars == <<store, resp, reqs, ncalls, tracks, wf, clicks>>

----------------------------------------------------------------------------
(* Bounds *)

MaxIdLen == 2       \* longest track identifier tried in a request body
MaxCalls == 1       \* server operations invoked by arbitrary callers in one run
MaxWrites == 2      \* write operations the operator invokes in one run
MaxClicks == 3      \* Save / Unlink clicks in one run

----------------------------------------------------------------------------
(* Text helpers *)

Null == <<"null">>          \* null / undefined of a text value
NullNum == 0 - 1            \* null of a numeric value

Str_spotify_track == <<"s","p","o","t","i","f","y",":","t","r","a","c","k",":">>
Str_open_spotify_track ==
    <<"o","p","e","n",".","s","p","o","t","i","f","y",".","c","o","m","/","t","r","a","c","k","/">>
Str_https == <<"h","t","t","p","s",":","/","/">>

LowerLetters ==
    <<"a","b","c","d","e","f","g","h","i","j","k","l","m",
      "n","o","p","q","r","s","t","u","v","w","x","y","z">>
UpperLetters ==
    <<"A","B","C","D","E","F","G","H","I","J","K","L","M",
      "N","O","P","Q","R","S","T","U","V","W","X","Y","Z">>
Digits == {"0","1","2","3","4","5","6","7","8","9"}

Range(s) == {s[i] : i \in DOMAIN s}

IsLower(c) == c \in Range(LowerLetters)
IsUpper(c) == c \in Range(UpperLetters)
IsDigit(c) == c \in Digits
\* a character class that also admits the hyphen
IsAlnum_WithHyphen(c) == IsLower(c) \/ IsUpper(c) \/ IsDigit(c) \/ c = "-"

\* the character class [a-zA-Z0-9]
IsAlnum(c) == IsLower(c) \/ IsUpper(c) \/ IsDigit(c)

SetMin(S) == CHOOSE m \in S : \A k \in S : m <= k

\* does the literal lit occur in s starting at index i
OccursAt(lit, s, i) ==
    /\ i + Len(lit) - 1 <= Len(s)
    /\ \A k \in 1..Len(lit) : s[i + k - 1] = lit[k]

\* length of the longest run of [a-zA-Z0-9] in s starting at index j
AlnumRun(s, j) ==
    CHOOSE n \in 0..(Len(s) - j + 1) :
        /\ \A k \in j..(j + n - 1) : IsAlnum(s[k])
        /\ (j + n > Len(s) \/ ~IsAlnum(s[j + n]))

\* s.match(/<lit>([a-zA-Z0-9]+)/)[1], or Null when there is no match:
\* the leftmost occurrence of lit followed by at least one alphanumeric
\* character, capturing the longest alphanumeric run.
MatchAfter(lit, s) ==
    LET starts == {i \in 1..Len(s) :
                      /\ OccursAt(lit, s, i)
                      /\ i + Len(lit) <= Len(s)
                      /\ IsAlnum(s[i + Len(lit)])}
    IN  IF starts = {} THEN Null
        ELSE LET j == SetMin(starts) + Len(lit)
             IN  SubSeq(s, j, j + AlnumRun(s, j) - 1)

\* Reference extraction of the reconciliation endpoint: the URI pattern is
\* tried first, the web URL pattern second.
\* only the web URL pattern is tried
ExtractTrackId_UrlOnly(trackUri) ==
    MatchAfter(Str_open_spotify_track, trackUri)

ExtractTrackId(trackUri) ==
    LET uriMatch == MatchAfter(Str_spotify_track, trackUri)
    IN  IF uriMatch # Null THEN uriMatch
        ELSE MatchAfter(Str_open_spotify_track, trackUri)

----------------------------------------------------------------------------
(* Sessions and the access gate *)

NoSession == [present |-> FALSE, name |-> "", id |-> ""]
OperatorSession == [present |-> TRUE, name |-> "benwaffle", id |-> "u1"]
OtherSession == [present |-> TRUE, name |-> "mallory", id |-> "u2"]
Sessions == {NoSession, OperatorSession, OtherSession}

\* a gate that only looks for a session
checkAuth_AnySession(session) ==
    IF ~session.present THEN "Unauthorized" ELSE "ok"

\* checkAuth: "ok", or the message of the error it throws
checkAuth(session) ==
    IF ~session.present THEN "Unauthorized"
    ELSE IF session.name # "benwaffle" THEN "Access denied"
    ELSE "ok"

\* HTTP status of a gate failure in the two route handlers
GateStatus(gate) ==
    CASE gate = "Unauthorized" -> 401
      [] gate = "Access denied" -> 403
      [] OTHER -> 200

----------------------------------------------------------------------------
(* The Provider's catalog: what the external API answers *)

T1 == <<"t","1">>
T2 == <<"t","2">>
AL == <<"a","l">>
AR1 == <<"c","1">>
AR2 == <<"p","1">>
Name_Composer == <<"J","."," ","B","a","c","h">>
Name_Performer == <<"Y","o","-","Y","o">>

ProviderTrackIds == {T1, T2}

ArtistName(id) == IF id = AR1 THEN Name_Composer ELSE Name_Performer

ProviderAlbum ==
    [id |-> AL, name |-> "Cello Suites",
     release_date |-> <<"1","7","2","0","-","0","5">>,
     popularity |-> 7, images |-> "cover"]

\* GET /v1/tracks/{id} for a track the Provider knows
ProviderTrack(id) ==
    [id |-> id,
     name |-> IF id = T1 THEN "Suite No. 1: Courante" ELSE "Suite No. 1: Prelude",
     uri |-> Str_spotify_track \o id,
     duration_ms |-> 100,
     track_number |-> IF id = T1 THEN 5 ELSE 3,
     popularity |-> 9,
     album |-> ProviderAlbum,
     artists |-> <<[id |-> AR1, name |-> ArtistName(AR1)],
                   [id |-> AR2, name |-> ArtistName(AR2)]>>]

----------------------------------------------------------------------------
(* The Catalog Store *)

EmptyStore ==
    [spotifyAlbum |-> <<>>, spotifyArtist |-> <<>>, spotifyTrack |-> <<>>,
     trackArtists |-> <<>>, composer |-> <<>>, work |-> <<>>,
     movement |-> <<>>, trackMovement |-> <<>>]

\* db.select().from(tbl).where(P)
Select(tbl, P(_)) == SelectSeq(tbl, P)

\* .insert(row).onConflictDoUpdate({target, set}): rows are matched on the
\* conflict target; a matching row gets the fields of `set`, otherwise the
\* row is appended.
Upsert(tbl, Key(_), row, Set(_)) ==
    IF \E i \in DOMAIN tbl : Key(tbl[i]) = Key(row)
    THEN [i \in DOMAIN tbl |-> IF Key(tbl[i]) = Key(row) THEN Set(tbl[i]) ELSE tbl[i]]
    ELSE Append(tbl, row)

\* unique keys of the link tables and of composer (schema)
TrackArtistKey(r) == <<r.spotifyTrackId, r.spotifyArtistId>>
TrackMovementKey(r) == <<r.spotifyTrackId, r.movementId>>

\* db.insert(trackArtists).values(row).onConflictDoNothing()
InsertTrackArtist(tbl, row) ==
    IF \E i \in DOMAIN tbl : TrackArtistKey(tbl[i]) = TrackArtistKey(row)
    THEN tbl ELSE Append(tbl, row)

\* an insert that does not notice the existing link
InsertTrackMovement_Always(tbl, row) == Append(tbl, row)

\* db.insert(trackMovement).values(row).onConflictDoNothing()
InsertTrackMovement(tbl, row) ==
    IF \E i \in DOMAIN tbl : TrackMovementKey(tbl[i]) = TrackMovementKey(row)
    THEN tbl ELSE Append(tbl, row)
ComposerConflict(tbl, row) ==
    \E i \in DOMAIN tbl :
        tbl[i].id = row.id \/ tbl[i].spotifyArtistId = row.spotifyArtistId

----------------------------------------------------------------------------
(* Pure helpers of the write operations *)

IsSpace(c) == c = " "

ToLower(c) ==
    IF IsUpper(c)
    THEN LowerLetters[CHOOSE i \in DOMAIN UpperLetters : UpperLetters[i] = c]
    ELSE c

\* s.toLowerCase()
toLowerCase(s) == [i \in DOMAIN s |-> ToLower(s[i])]

\* s.replace(/[^a-z0-9\s-]/g, "")
StripSpecial(s) ==
    SelectSeq(s, LAMBDA c : IsLower(c) \/ IsDigit(c) \/ IsSpace(c) \/ c = "-")

\* s.replace(/\s+/g, "-"): every maximal run of whitespace becomes one hyphen
SpacesToHyphen(s) ==
    LET f[i \in 0..Len(s)] ==
            IF i = 0 THEN <<>>
            ELSE IF IsSpace(s[i])
                 THEN IF i > 1 /\ IsSpace(s[i - 1]) THEN f[i - 1]
                      ELSE Append(f[i - 1], "-")
                 ELSE Append(f[i - 1], s[i])
    IN  f[Len(s)]

\* s.replace(/-+/g, "-"): every maximal run of hyphens becomes one hyphen
CollapseHyphens(s) ==
    LET f[i \in 0..Len(s)] ==
            IF i = 0 THEN <<>>
            ELSE IF s[i] = "-" /\ i > 1 /\ s[i - 1] = "-" THEN f[i - 1]
                 ELSE Append(f[i - 1], s[i])
    IN  f[Len(s)]

\* s.trim()
Trim(s) ==
    LET keep == {i \in DOMAIN s : ~IsSpace(s[i])}
    IN  IF keep = {} THEN <<>>
        ELSE SubSeq(s, SetMin(keep), CHOOSE m \in keep : \A k \in keep : k <= m)

\* the slug with the whitespace runs hyphenated after the hyphen runs are
\* collapsed
slugify_HyphenateLast(name) ==
    Trim(SpacesToHyphen(CollapseHyphens(StripSpecial(toLowerCase(name)))))

\* the composer slug addComposer derives from the name
slugify(name) ==
    Trim(CollapseHyphens(SpacesToHyphen(StripSpecial(toLowerCase(name)))))

NaNNum == 0 - 2             \* NaN

DigitVal(c) ==
    CASE c = "0" -> 0 [] c = "1" -> 1 [] c = "2" -> 2 [] c = "3" -> 3
      [] c = "4" -> 4 [] c = "5" -> 5 [] c = "6" -> 6 [] c = "7" -> 7
      [] c = "8" -> 8 [] c = "9" -> 9

\* parseInt(s) for an unsigned decimal: leading whitespace is skipped, the
\* longest digit prefix is read, NaN when there is none
parseInt(s) ==
    LET body == IF \E i \in DOMAIN s : ~IsSpace(s[i])
                THEN SubSeq(s, SetMin({i \in DOMAIN s : ~IsSpace(s[i])}), Len(s))
                ELSE <<>>
        n == CHOOSE k \in 0..Len(body) :
                 /\ \A i \in 1..k : IsDigit(body[i])
                 /\ (k = Len(body) \/ ~IsDigit(body[k + 1]))
        val[i \in 0..n] == IF i = 0 THEN 0 ELSE 10 * val[i - 1] + DigitVal(body[i])
    IN  IF n = 0 THEN NaNNum ELSE val[n]

\* s.split("-")[0]
FirstSegment(s) ==
    LET dashes == {i \in DOMAIN s : s[i] = "-"}
    IN  IF dashes = {} THEN s ELSE SubSeq(s, 1, SetMin(dashes) - 1)

\* release_date ? parseInt(release_date.split("-")[0]) : null
YearOf(release_date) ==
    IF release_date = Null \/ release_date = <<>> THEN NullNum
    ELSE parseInt(FirstSegment(release_date))

\* x || null for a number
OrNull(x) == IF x = 0 \/ x = NaNNum THEN NullNum ELSE x

\* composerId + "/" + lowercase(catalogSystem) + "-" + catalogNumber
WorkId(composerId, catalogSystem, catalogNumber) ==
    composerId \o <<"/">> \o toLowerCase(catalogSystem) \o <<"-">> \o catalogNumber

NumText(n) ==
    CASE n = NullNum -> <<"-","1">>
      [] n \in 0..9 -> <<CHOOSE c \in Digits : DigitVal(c) = n>>

\* workId + "/" + movementNumber
MovementId(workId, movementNumber) == workId \o <<"/">> \o NumText(movementNumber)

----------------------------------------------------------------------------
(* The server operations.  Each is an operator from the caller's session,  *)
(* the payload, the environment's answers and the Store to the outcome:    *)
(* the result ("ok" or the message of the thrown error), the Store after   *)
(* the call, the external requests issued, in order, and a returned value. *)

MaxFailAt == 5      \* external requests of one call that can be made to fail

\* The environment of one call: which of its external requests fails (the
\* token broker has no token, the Provider or the Store throws), 0 for none,
\* and the popularity the Provider answers (0: none in the answer).
Envs ==
    {[failAt |-> k, pop |-> 5] : k \in 0..MaxFailAt} \cup {[failAt |-> 0, pop |-> 0]}
EnvOk == [failAt |-> 0, pop |-> 5]

BadPayload == [bad |-> TRUE]
IsBad(p) == "bad" \in DOMAIN p
\* !x for a text value
IsFalsy(x) == x = <<>> \/ x = Null

Res(result, st, rq, value) ==
    [result |-> result, store |-> st, reqs |-> rq, value |-> value]

\* the request just issued (the last of rq) is the one that fails
Fails(env, rq) == Len(rq) = env.failAt

AlbumRow(albumData, pop) ==
    [spotifyId |-> albumData.id, title |-> albumData.name,
     year |-> YearOf(albumData.release_date), images |-> albumData.images,
     popularity |-> OrNull(pop)]

\* the try block of addAlbumToDatabase
addAlbumBody(albumData, env, st) ==
    LET err == "Failed to add album to database"
        r1 == <<"token">>
        r2 == <<"token", "provider">>
        r3 == <<"token", "provider", "store">>
    IN  IF Fails(env, r1) \/ IsBad(albumData) THEN Res(err, st, r1, Null)
        ELSE IF Fails(env, r2) THEN Res(err, st, r2, Null)
        ELSE IF Fails(env, r3) THEN Res(err, st, r3, Null)
        \* year: NaN is handed to the Store, which either refuses the value
        \* for its integer column or keeps it as NULL
        ELSE IF YearOf(albumData.release_date) = NaNNum /\ env.nan = "reject"
             THEN Res(err, st, r3, Null)
        ELSE LET row == [AlbumRow(albumData, env.pop) EXCEPT
                            !.year = IF @ = NaNNum THEN NullNum ELSE @]
             IN  Res("ok",
                     [st EXCEPT !.spotifyAlbum =
                         Upsert(@, LAMBDA r : r.spotifyId, row,
                                LAMBDA r : [r EXCEPT !.title = row.title,
                                                     !.year = row.year,
                                                     !.images = row.images,
                                                     !.popularity = row.popularity])],
                     r3, Null)

\* the access token is requested before the gate's verdict is acted on
addAlbumToDatabase_TokenBeforeGate(session, albumData, env, st) ==
    LET gate == checkAuth(session)
    IN  IF gate # "ok" THEN Res(gate, st, <<"token">>, Null)
        ELSE addAlbumBody(albumData, env, st)

addAlbumToDatabase(session, albumData, env, st) ==
    LET gate == checkAuth(session)
    IN  IF gate # "ok" THEN Res(gate, st, <<>>, Null)
        ELSE addAlbumBody(albumData, env, st)

ArtistRow(artist, pop) ==
    [spotifyId |-> artist.id, name |-> artist.name,
     popularity |-> OrNull(pop), images |-> IF pop = 0 THEN "null" ELSE "portrait"]

addArtistsToDatabase(session, artists, env, st) ==
    LET gate == checkAuth(session)
        err == "Failed to add artists to database"
        \* the state after the token request and the first i loop iterations
        acc[i \in 0..Len(artists)] ==
            IF i = 0
            THEN [st |-> st, reqs |-> <<"token">>, failed |-> Fails(env, <<"token">>)]
            ELSE LET a == acc[i - 1]
                     rq1 == Append(a.reqs, "provider")
                     rq2 == Append(rq1, "store")
                 IN  IF a.failed THEN a
                     ELSE IF IsBad(artists[i]) THEN [a EXCEPT !.failed = TRUE]
                     ELSE IF Fails(env, rq1)
                          THEN [st |-> a.st, reqs |-> rq1, failed |-> TRUE]
                     ELSE IF Fails(env, rq2)
                          THEN [st |-> a.st, reqs |-> rq2, failed |-> TRUE]
                     ELSE LET row == ArtistRow(artists[i], env.pop)
                          IN  [st |-> [a.st EXCEPT !.spotifyArtist =
                                         Upsert(@, LAMBDA r : r.spotifyId, row,
                                                LAMBDA r : [r EXCEPT
                                                    !.name = row.name,
                                                    !.popularity = row.popularity,
                                                    !.images = row.images])],
                               reqs |-> rq2, failed |-> FALSE]
        end == acc[Len(artists)]
    IN  IF gate # "ok" THEN Res(gate, st, <<>>, Null)
        ELSE Res(IF end.failed THEN err ELSE "ok", end.st, end.reqs, Null)

TrackRow(trackData) ==
    [spotifyId |-> trackData.id, title |-> trackData.name,
     trackNumber |-> trackData.track_number, durationMs |-> trackData.duration_ms,
     popularity |-> trackData.popularity, spotifyAlbumId |-> trackData.albumId]

addTrackToDatabase(session, trackData, env, st) ==
    LET gate == checkAuth(session)
        err == "Failed to add track to database"
        n == IF IsBad(trackData) THEN 0 ELSE Len(trackData.artists)
        \* the state after the track upsert and the first i association inserts
        acc[i \in 0..n] ==
            IF i = 0
            THEN IF Fails(env, <<"store">>)
                 THEN [st |-> st, reqs |-> <<"store">>, failed |-> TRUE]
                 ELSE LET row == TrackRow(trackData)
                      IN  [st |-> [st EXCEPT !.spotifyTrack =
                                     Upsert(@, LAMBDA r : r.spotifyId, row,
                                            LAMBDA r : [r EXCEPT
                                                !.title = row.title,
                                                !.trackNumber = row.trackNumber,
                                                !.durationMs = row.durationMs,
                                                !.popularity = row.popularity,
                                                !.spotifyAlbumId = row.spotifyAlbumId])],
                           reqs |-> <<"store">>, failed |-> FALSE]
            ELSE LET a == acc[i - 1]
                     rq == Append(a.reqs, "store")
                 IN  IF a.failed THEN a
                     ELSE IF Fails(env, rq)
                          THEN [st |-> a.st, reqs |-> rq, failed |-> TRUE]
                     ELSE [st |-> [a.st EXCEPT !.trackArtists =
                                     InsertTrackArtist(@,
                                         [spotifyTrackId |-> trackData.id,
                                          spotifyArtistId |-> trackData.artists[i].id])],
                           reqs |-> rq, failed |-> FALSE]
    IN  IF gate # "ok" THEN Res(gate, st, <<>>, Null)
        ELSE IF IsBad(trackData) THEN Res(err, st, <<>>, Null)
        ELSE Res(IF acc[n].failed THEN err ELSE "ok", acc[n].st, acc[n].reqs, Null)

\* an insert into a table that enforces no key
InsertComposer_Unchecked(tbl, row) == [ok |-> TRUE, tbl |-> Append(tbl, row)]

\* an insert that overwrites the row holding the same id
InsertComposer_OnConflictUpdate(tbl, row) ==
    [ok |-> TRUE,
     tbl |-> Upsert(tbl, LAMBDA r : r.id, row, LAMBDA r : row)]

\* db.insert(composer).values(row): a plain insert, which the Store rejects
\* when the row's id or provider-artist reference is already taken
InsertComposer(tbl, row) ==
    IF ComposerConflict(tbl, row) THEN [ok |-> FALSE, tbl |-> tbl]
    ELSE [ok |-> TRUE, tbl |-> Append(tbl, row)]

ComposerRow(payload) ==
    [id |-> slugify(payload.name), name |-> payload.name,
     spotifyArtistId |-> payload.spotifyArtistId]

addComposer(session, payload, env, st) ==
    LET gate == checkAuth(session)
        err == "Failed to add composer"
    IN  IF gate # "ok" THEN Res(gate, st, <<>>, Null)
        \* name.toLowerCase() throws on a missing name
        ELSE IF IsBad(payload) \/ payload.name = Null THEN Res(err, st, <<>>, Null)
        ELSE LET row == ComposerRow(payload)
                 ins == InsertComposer(st.composer, row)
             IN  IF Fails(env, <<"store">>) \/ ~ins.ok
                 THEN Res(err, st, <<"store">>, Null)
                 ELSE Res("ok", [st EXCEPT !.composer = ins.tbl], <<"store">>, row.id)

\* the id the composer route derives from the name: its own copy of the
\* chain toLowerCase, strip, hyphenate, collapse, trim
POST_Composer_id(name) ==
    Trim(CollapseHyphens(SpacesToHyphen(StripSpecial(toLowerCase(name)))))

\* the composer-creation route: POST { spotifyArtistId, name }
POST_Composer(session, payload, env, st) ==
    LET gate == checkAuth(session)
    IN  IF gate # "ok" THEN Res(gate, st, <<>>, Null)
        ELSE IF IsBad(payload) \/ IsFalsy(payload.spotifyArtistId) \/ IsFalsy(payload.name)
             THEN Res("Missing required fields", st, <<>>, Null)
        ELSE LET row == [id |-> POST_Composer_id(payload.name), name |-> payload.name,
                         spotifyArtistId |-> payload.spotifyArtistId]
                 ins == InsertComposer(st.composer, row)
             IN  IF Fails(env, <<"store">>) \/ ~ins.ok
                 THEN Res("Failed to add composer", st, <<"store">>, Null)
                 ELSE Res("ok", [st EXCEPT !.composer = ins.tbl], <<"store">>, row.id)

\* HTTP status of a route handler's outcome
HttpStatus(result) ==
    CASE result = "ok" -> 200
      [] result = "Unauthorized" -> 401
      [] result = "Access denied" -> 403
      [] result = "Missing required fields" -> 400
      [] result = "Invalid track URI" -> 400
      [] result = "Invalid Spotify track URI or URL format" -> 400
      [] result = "No Spotify access token" -> 401
      [] OTHER -> 500

checkWorkAndMovement(session, q, env, st) ==
    LET gate == checkAuth(session)
        err == "Failed to check work and movement"
        works == Select(st.work, LAMBDA w : /\ w.composerId = q.composerId
                                            /\ w.catalogSystem = q.catalogSystem
                                            /\ w.catalogNumber = q.catalogNumber)
        movements == Select(st.movement, LAMBDA m : /\ m.workId = works[1].id
                                                    /\ m.number = q.movementNumber)
    IN  IF gate # "ok" THEN Res(gate, st, <<>>, Null)
        ELSE IF Fails(env, <<"store">>) THEN Res(err, st, <<"store">>, Null)
        ELSE IF works = <<>> THEN Res("ok", st, <<"store">>, <<"no work">>)
        ELSE IF Fails(env, <<"store", "store">>)
             THEN Res(err, st, <<"store", "store">>, Null)
        ELSE Res("ok", st, <<"store", "store">>,
                 IF movements = <<>> THEN <<"work">> ELSE <<"work", "movement">>)

WorkRow(data) ==
    [id |-> WorkId(data.composerId, data.catalogSystem, data.catalogNumber),
     composerId |-> data.composerId, title |-> data.formalName,
     nickname |-> data.nickname, catalogSystem |-> data.catalogSystem,
     catalogNumber |-> data.catalogNumber, yearComposed |-> data.yearComposed,
     form |-> data.form]

MovementRow(data) ==
    [id |-> MovementId(WorkId(data.composerId, data.catalogSystem, data.catalogNumber),
                       data.movementNumber),
     workId |-> WorkId(data.composerId, data.catalogSystem, data.catalogNumber),
     number |-> data.movementNumber, title |-> data.movementName]

addWorkMovementAndTrack(session, data, env, st) ==
    LET gate == checkAuth(session)
        err == "Failed to add work, movement, and track"
        r1 == <<"store">>
        r2 == <<"store", "store">>
        r3 == <<"store", "store", "store">>
    IN  IF gate # "ok" THEN Res(gate, st, <<>>, Null)
        \* data.catalogSystem.toLowerCase() throws on a missing catalog system
        ELSE IF IsBad(data) \/ data.catalogSystem = Null THEN Res(err, st, <<>>, Null)
        ELSE LET w == WorkRow(data)
                 m == MovementRow(data)
                 st1 == [st EXCEPT !.work =
                            Upsert(@, LAMBDA r : r.id, w,
                                   LAMBDA r : [r EXCEPT
                                       !.title = w.title, !.nickname = w.nickname,
                                       !.catalogSystem = w.catalogSystem,
                                       !.catalogNumber = w.catalogNumber,
                                       !.yearComposed = w.yearComposed,
                                       !.form = w.form])]
                 st2 == [st1 EXCEPT !.movement =
                            Upsert(@, LAMBDA r : r.id, m,
                                   LAMBDA r : [r EXCEPT !.number = m.number,
                                                        !.title = m.title])]
                 st3 == [st2 EXCEPT !.trackMovement =
                            InsertTrackMovement(@,
                                [spotifyTrackId |-> data.spotifyTrackId,
                                 movementId |-> m.id,
                                 startMs |-> NullNum, endMs |-> NullNum])]
             IN  IF Fails(env, r1) THEN Res(err, st, r1, Null)
                 ELSE IF Fails(env, r2) THEN Res(err, st1, r2, Null)
                 ELSE IF Fails(env, r3) THEN Res(err, st2, r3, Null)
                 ELSE Res("ok", st3, r3, m.id)

\* unlinkTrack: deletes the track's TrackMovement rows and nothing else
deleteTrackMetadata(session, trackId, env, st) ==
    LET gate == checkAuth(session)
    IN  IF gate # "ok" THEN Res(gate, st, <<>>, Null)
        ELSE IF Fails(env, <<"store">>)
             THEN Res("Failed to delete track metadata", st, <<"store">>, Null)
        ELSE Res("ok",
                 [st EXCEPT !.trackMovement =
                     Select(@, LAMBDA r : r.spotifyTrackId # trackId)],
                 <<"store">>, Null)

----------------------------------------------------------------------------
(* The reconciliation endpoint *)

\* what the Provider answers to GET /v1/tracks/{id}
ProviderStatus(env, trackId) ==
    IF env.status # 200 THEN env.status
    ELSE IF trackId \in ProviderTrackIds THEN 200 ELSE 404

Last(s) == s[Len(s)]

\* every TrackMovement row of the Store, whichever track it links
TrackMovementRecords_AnyTrack(existingTrack, trackId, st) ==
    IF existingTrack # <<>> THEN st.trackMovement ELSE <<>>

\* the TrackMovement rows of the track, looked up only when the track is
\* in the Store
TrackMovementRecords(existingTrack, trackId, st) ==
    IF existingTrack # <<>>
    THEN Select(st.trackMovement, LAMBDA tm : tm.spotifyTrackId = trackId)
    ELSE <<>>

\* the annotated track assembled from the Provider's answer and the Store
AnnotatedTrack(trackData, st) ==
    LET artistIds == {trackData.artists[i].id : i \in DOMAIN trackData.artists}
        existingSpotifyArtists ==
            Select(st.spotifyArtist, LAMBDA a : a.spotifyId \in artistIds)
        existingComposers ==
            Select(st.composer, LAMBDA c : c.spotifyArtistId \in artistIds)
        existingAlbum ==
            Select(st.spotifyAlbum, LAMBDA a : a.spotifyId = trackData.album.id)
        existingTrack ==
            Select(st.spotifyTrack, LAMBDA t : t.spotifyId = trackData.id)
        composersOf(id) == Select(existingComposers, LAMBDA c : c.spotifyArtistId = id)
        trackMovementRecords == TrackMovementRecords(existingTrack, trackData.id, st)
        movementIds == {trackMovementRecords[i].movementId : i \in DOMAIN trackMovementRecords}
        movementsData ==
            IF trackMovementRecords # <<>>
            THEN Select(st.movement, LAMBDA m : m.id \in movementIds)
            ELSE <<>>
        workIds == {movementsData[i].workId : i \in DOMAIN movementsData}
        worksData ==
            IF movementsData # <<>>
            THEN Select(st.work, LAMBDA w : w.id \in workIds)
            ELSE <<>>
        composerIds == {worksData[i].composerId : i \in DOMAIN worksData}
        composersData ==
            IF worksData # <<>>
            THEN Select(st.composer, LAMBDA c : c.id \in composerIds)
            ELSE <<>>
    IN  [id |-> trackData.id,
         name |-> trackData.name,
         uri |-> trackData.uri,
         duration_ms |-> trackData.duration_ms,
         track_number |-> trackData.track_number,
         popularity |-> trackData.popularity,
         inSpotifyTracksTable |-> existingTrack # <<>>,
         artists |->
            [i \in DOMAIN trackData.artists |->
                LET artist == trackData.artists[i]
                IN  [id |-> artist.id,
                     name |-> artist.name,
                     inSpotifyArtistsTable |->
                         \E k \in DOMAIN existingSpotifyArtists :
                             existingSpotifyArtists[k].spotifyId = artist.id,
                     inComposersTable |-> composersOf(artist.id) # <<>>,
                     composerId |-> IF composersOf(artist.id) # <<>>
                                    THEN Last(composersOf(artist.id)).id
                                    ELSE Null]],
         album |->
            [id |-> trackData.album.id,
             name |-> trackData.album.name,
             release_date |-> trackData.album.release_date,
             popularity |-> trackData.album.popularity,
             images |-> trackData.album.images,
             inSpotifyAlbumsTable |-> existingAlbum # <<>>],
         dbData |->
            [track |-> existingTrack,
             album |-> existingAlbum,
             artists |-> existingSpotifyArtists,
             composers |-> composersData,
             trackMovements |-> trackMovementRecords,
             movements |-> movementsData,
             works |-> worksData]]

\* the Store queries one reconciliation issues, in order; t is the annotated
\* track they produce
ResolveQueries(t) ==
    <<"store", "store", "store", "store">>
    \o (IF t.inSpotifyTracksTable THEN <<"store">> ELSE <<>>)
    \o (IF t.dbData.trackMovements # <<>> THEN <<"store">> ELSE <<>>)
    \o (IF t.dbData.movements # <<>> THEN <<"store">> ELSE <<>>)
    \o (IF t.dbData.works # <<>> THEN <<"store">> ELSE <<>>)

\* the element of a one-element set: names a value that is computed once
TheOnly(S) == CHOOSE v \in S : TRUE

\* no annotated track in an answer
NoTrack == [id |-> Null]

\* an answer of the route; trackId is the handler's local of that name
Answer(result, status, st, rq, track, trackId) ==
    [result |-> result, status |-> status, store |-> st, reqs |-> rq,
     value |-> track, trackId |-> trackId]

\* the answers of one request: which external request throws, the status
\* the Provider answers, and whether the body of a non-success answer can
\* be read as JSON (an error document) or not (a gateway's page)
ResolveEnvs ==
    {[failAt |-> k, status |-> 200, json |-> TRUE] : k \in 0..MaxFailAt}
    \cup {[failAt |-> 0, status |-> c, json |-> TRUE] : c \in {404, 503}}
    \cup {[failAt |-> 0, status |-> 503, json |-> FALSE]}

\* a route that keeps the track it resolved: its answer carries a Store with
\* one more track row
ReconcileStore_SavesTrack(trackId, t, env, st) ==
    Answer("ok", 200,
           [st EXCEPT !.spotifyTrack = Append(@, [spotifyId |-> trackId])],
           <<"token", "provider">> \o ResolveQueries(t), t, trackId)

\* the Store part of the route: the queries, any of which may throw, and
\* the answer built from them
ReconcileStore(trackId, t, env, st) ==
    LET r2 == <<"token", "provider">>
    IN  TheOnly({IF env.failAt \in 3..Len(all)
                 THEN Answer("Failed to fetch track metadata", 500, st,
                             SubSeq(all, 1, env.failAt), NoTrack, trackId)
                 ELSE Answer("ok", 200, st, all, t, trackId)
                    : all \in {r2 \o ResolveQueries(t)}})

\* the route once the reference is extracted; trackId is the handler's local
ReconcileTrack(trackId, env, st) ==
    LET r1 == <<"token">>
        r2 == <<"token", "provider">>
    IN  IF trackId = Null
        THEN Answer("Invalid Spotify track URI or URL format", 400, st, <<>>,
                    NoTrack, Null)
        ELSE IF Fails(env, r1)
             THEN Answer("No Spotify access token", 401, st, r1, NoTrack, trackId)
        ELSE IF Fails(env, r2)
             THEN Answer("Failed to fetch track metadata", 500, st, r2, NoTrack, trackId)
        ELSE IF ProviderStatus(env, trackId) # 200
             \* await response.json() of the error body throws inside the try
             THEN IF ~env.json
                  THEN Answer("Failed to fetch track metadata", 500, st, r2,
                              NoTrack, trackId)
                  ELSE Answer("Failed to fetch track from Spotify",
                              ProviderStatus(env, trackId), st, r2, NoTrack, trackId)
        ELSE TheOnly({ReconcileStore(trackId, t, env, st)
                         : t \in {AnnotatedTrack(ProviderTrack(trackId), st)}})

\* the reconciliation route: POST { trackUri }
POST_Reconcile(session, body, env, st) ==
    IF checkAuth(session) # "ok"
    THEN Answer(checkAuth(session), GateStatus(checkAuth(session)), st, <<>>,
                NoTrack, Null)
    ELSE IF IsBad(body) \/ IsFalsy(body.trackUri) \/ body.type # "string"
         THEN Answer("Invalid track URI", 400, st, <<>>, NoTrack, Null)
    ELSE TheOnly({ReconcileTrack(trackId, env, st)
                     : trackId \in {ExtractTrackId(body.trackUri)}})

----------------------------------------------------------------------------
(* Payloads the operations are invoked with *)

Slug_Composer == slugify(Name_Composer)
Cat_System == <<"B","W","V">>
Cat_Number == <<"1","0","0","7">>

AlbumData(release_date) ==
    [id |-> ProviderAlbum.id, name |-> ProviderAlbum.name,
     release_date |-> release_date, popularity |-> ProviderAlbum.popularity,
     images |-> ProviderAlbum.images]

ArtistData(id) == [id |-> id, name |-> ArtistName(id)]

TrackData(id) ==
    LET t == ProviderTrack(id)
    IN  [id |-> t.id, name |-> t.name, uri |-> t.uri, duration_ms |-> t.duration_ms,
         track_number |-> t.track_number, popularity |-> t.popularity,
         albumId |-> t.album.id,
         artists |-> [i \in DOMAIN t.artists |-> ArtistData(t.artists[i].id)]]

WorkData(composerId, catalogSystem, movementNumber, trackId) ==
    [composerId |-> composerId, formalName |-> "Cello Suite No. 1",
     nickname |-> "null", catalogSystem |-> catalogSystem,
     catalogNumber |-> Cat_Number, key |-> "G major", form |-> "suite",
     movementNumber |-> movementNumber, movementName |-> "null",
     yearComposed |-> NullNum, spotifyTrackId |-> trackId]

AlbumPayloads == {AlbumData(ProviderAlbum.release_date), AlbumData(<<>>), BadPayload}
ArtistPayloads == {<<ArtistData(AR1), ArtistData(AR2)>>, <<ArtistData(AR2)>>, <<BadPayload>>}
TrackPayloads == {TrackData(T1), TrackData(T2), BadPayload}
ComposerPayloads ==
    {[spotifyArtistId |-> AR1, name |-> Name_Composer],
     [spotifyArtistId |-> AR2, name |-> <<"j"," "," ","b","a","c","h">>],
     [spotifyArtistId |-> AR2, name |-> Name_Performer],
     [spotifyArtistId |-> AR2, name |-> Name_Composer],
     [spotifyArtistId |-> AR1, name |-> Null],
     BadPayload}
WorkPayloads ==
    {WorkData(Slug_Composer, Cat_System, n, t) : n \in {1, 2}, t \in ProviderTrackIds}
    \cup {WorkData(Slug_Composer, Null, 1, T1), BadPayload}
WorkQueries ==
    {[composerId |-> Slug_Composer, catalogSystem |-> Cat_System,
      catalogNumber |-> Cat_Number, movementNumber |-> n] : n \in {1, 2}}

\* request bodies of the reconciliation route
UriForm(id) == Str_spotify_track \o id
UrlForm(id) == Str_https \o Str_open_spotify_track \o id
Body(text) == [type |-> "string", trackUri |-> text]

FewBodies == {Body(UriForm(T1)), Body(UrlForm(T2)), Body(<<"t","1">>), BadPayload}

\* identifiers of letters and digits, up to MaxIdLen characters
IdChars == {"t", "1", "2", "Z"}
IdsOfLen[n \in 0..MaxIdLen] ==
    IF n = 0 THEN {<<>>}
    ELSE {Append(w, c) : w \in IdsOfLen[n - 1], c \in IdChars}
IdInputs == UNION {IdsOfLen[n] : n \in 1..MaxIdLen}

Str_query == <<"?","s","i","=","x">>
Str_album == <<"s","p","o","t","i","f","y",":","a","l","b","u","m",":">>

\* bodies that hold a track reference
GoodBodies ==
    {Body(UriForm(id)) : id \in IdInputs}
    \cup {Body(UrlForm(id)) : id \in IdInputs}
    \cup {Body(UrlForm(id) \o Str_query) : id \in IdInputs}
    \cup {Body(<<" ">> \o UriForm(id) \o <<"#">>) : id \in IdInputs}

\* bodies that hold none: no trackUri, a non-string, the empty string, and
\* texts that miss a pattern by a little
JunkBodies ==
    {BadPayload,
     [type |-> "number", trackUri |-> <<"4","2">>],
     [type |-> "object", trackUri |-> UriForm(T1)],
     Body(<<>>),
     Body(Str_spotify_track),
     Body(Str_spotify_track \o <<"-">>),
     Body(Str_https \o Str_open_spotify_track),
     Body(Str_https \o Str_open_spotify_track \o <<"?">> \o T1),
     Body(Str_album \o T1),
     Body(<<"s","p","o","t","i","f","y",":","t","r","a","c","k">> \o T1),
     Body(<<"S","p","o","t","i","f","y",":","t","r","a","c","k",":">> \o T1),
     Body(T1)}

AllBodies == GoodBodies \cup JunkBodies

\* a Store in which track T1 has been saved and linked by the operator
SeededStore ==
    LET s1 == addAlbumToDatabase(OperatorSession, AlbumData(ProviderAlbum.release_date),
                                 EnvOk, EmptyStore).store
        s2 == addArtistsToDatabase(OperatorSession,
                                   <<ArtistData(AR1), ArtistData(AR2)>>, EnvOk, s1).store
        s3 == addComposer(OperatorSession,
                          [spotifyArtistId |-> AR1, name |-> Name_Composer],
                          EnvOk, s2).store
        s4 == addTrackToDatabase(OperatorSession, TrackData(T1), EnvOk, s3).store
    IN  addWorkMovementAndTrack(OperatorSession,
                                WorkData(Slug_Composer, Cat_System, 1, T1),
                                EnvOk, s4).store

InitStores == {EmptyStore, SeededStore}

----------------------------------------------------------------------------
(* The admin table: pure helpers of AlbumTracksTable *)

\* x falsy, for a number or null
IsFalsyNum(x) == x = NullNum \/ x = 0 \/ x = NaNNum

\* what the inference engine may return for a loaded track: the composer and
\* catalog entry of the recording, with or without an explicit movement number
Parsed(movement) ==
    [composerName |-> Name_Composer, catalogSystem |-> Cat_System,
     catalogNumber |-> Cat_Number, nickname |-> "null",
     formalName |-> "Cello Suite No. 1", movement |-> movement,
     movementName |-> "null", key |-> "G major", form |-> "suite",
     yearComposed |-> NullNum]
ParsedOptions == {Parsed(NullNum), Parsed(2)}
\* a work without a catalog entry: getWorkInfo's catalogSystem is string | null
ParsedNoCatalog == [Parsed(NullNum) EXCEPT !.catalogSystem = Null]

\* a TrackData: the annotated track and its optional parsed metadata, held
\* as a sequence of at most one element
WithParsed(annotated, parsed) == annotated @@ [parsed |-> parsed]

\* the Save button is shown for every track, linked or not
hasMetadata_Never(track) == FALSE

hasMetadata(track) == track.dbData.trackMovements # <<>>

getComposerName(track) ==
    IF track.parsed # <<>> /\ ~IsFalsy(track.parsed[1].composerName)
    THEN track.parsed[1].composerName
    ELSE IF track.dbData.composers # <<>> /\ ~IsFalsy(track.dbData.composers[1].name)
    THEN track.dbData.composers[1].name
    ELSE Null

\* getWorkInfo: a sequence of at most one element
getWorkInfo(track) ==
    IF track.parsed # <<>>
    THEN <<[catalogSystem |-> track.parsed[1].catalogSystem,
            catalogNumber |-> track.parsed[1].catalogNumber,
            nickname |-> track.parsed[1].nickname,
            title |-> track.parsed[1].formalName]>>
    ELSE IF track.dbData.works # <<>>
    THEN <<[catalogSystem |-> track.dbData.works[1].catalogSystem,
            catalogNumber |-> track.dbData.works[1].catalogNumber,
            nickname |-> track.dbData.works[1].nickname,
            title |-> track.dbData.works[1].title]>>
    ELSE <<>>

\* getMovementInfo: a sequence of at most one element
getMovementInfo(track) ==
    IF track.parsed # <<>>
    THEN <<[number |-> track.parsed[1].movement, title |-> track.parsed[1].movementName]>>
    ELSE IF track.dbData.movements # <<>>
    THEN <<[number |-> track.dbData.movements[1].number,
            title |-> track.dbData.movements[1].title]>>
    ELSE <<>>

\* arr.sort((a, b) => a.track_number - b.track_number): a stable sort
SortByTrackNumber(arr) ==
    LET ins[i \in 0..Len(arr)] ==
            IF i = 0 THEN <<>>
            ELSE LET prev == ins[i - 1]
                     k == Cardinality({j \in DOMAIN prev :
                                          prev[j].track_number <= arr[i].track_number})
                 IN  SubSeq(prev, 1, k) \o <<arr[i]>> \o SubSeq(prev, k + 1, Len(prev))
    IN  ins[Len(arr)]

\* arr.findIndex(t => t.id === id), counted from 0; -1 when absent
FindIndex(arr, id) ==
    IF \E i \in DOMAIN arr : arr[i].id = id
    THEN SetMin({i \in DOMAIN arr : arr[i].id = id}) - 1
    ELSE 0 - 1

\* tracks.filter(parsedMatch || dbMatch).sort(by track_number): the tracks of
\* list counted as the same work as track
SameWorkTracks(track, list, workInfo, composerName) ==
    SortByTrackNumber(
        SelectSeq(list, LAMBDA t :
            /\ t.album.id = track.album.id
            /\ \/ /\ t.parsed # <<>>
                  /\ t.parsed[1].catalogSystem = workInfo.catalogSystem
                  /\ t.parsed[1].catalogNumber = workInfo.catalogNumber
                  /\ t.parsed[1].composerName = composerName
               \/ \E i \in DOMAIN t.dbData.works :
                      /\ t.dbData.works[i].catalogSystem = workInfo.catalogSystem
                      /\ t.dbData.works[i].catalogNumber = workInfo.catalogNumber))

\* getInferredMovement(track) over the track list of the table; NullNum when
\* the track has no parsed metadata or carries an explicit number
getInferredMovement(track, list) ==
    IF track.parsed = <<>> \/ ~IsFalsyNum(track.parsed[1].movement) THEN NullNum
    ELSE LET parsed == track.parsed[1]
             sameWorkTracks == SameWorkTracks(track, list, parsed, parsed.composerName)
             position == FindIndex(sameWorkTracks, track.id)
         IN  IF Len(sameWorkTracks) > 1
             THEN IF position >= 0 THEN position + 1 ELSE 0 - 1
             ELSE 1

\* the rank counted from zero
InferOnSave_ZeroBased(track, list, workInfo, composerName) ==
    LET sameWorkTracks == SameWorkTracks(track, list, workInfo, composerName)
    IN  IF Len(sameWorkTracks) > 1 THEN FindIndex(sameWorkTracks, track.id) ELSE 1

\* the movement number handleSaveTrack infers for track from the track list
\* of its closure, when the metadata carries no explicit number
InferOnSave(track, list, workInfo, composerName) ==
    LET sameWorkTracks == SameWorkTracks(track, list, workInfo, composerName)
        position == FindIndex(sameWorkTracks, track.id)
    IN  IF Len(sameWorkTracks) > 1
        THEN IF position >= 0 THEN position + 1 ELSE 0 - 1
        ELSE 1

\* track.artists.find(a => a.name === composerName): at most one element
FindComposerArtist(track, composerName) ==
    LET hits == SelectSeq(track.artists, LAMBDA a : a.name = composerName)
    IN  IF hits = <<>> THEN <<>> ELSE <<hits[1]>>

\* prev.map(t => t.id === id ? { ...updated, parsed } : t)
ReplaceTrack(list, id, updated, parsed) ==
    [i \in DOMAIN list |->
        IF list[i].id = id THEN WithParsed(updated, parsed) ELSE list[i]]

\* the Store part of getBatchTrackMetadata for one track
BatchStore(t, env, st) ==
    LET r2 == <<"token", "provider">>
    IN  TheOnly({IF env.failAt \in 3..Len(all)
                 THEN Res("Failed to fetch track metadata", st,
                          SubSeq(all, 1, env.failAt), NoTrack)
                 ELSE Res("ok", st, all, t)
                    : all \in {r2 \o ResolveQueries(t)}})

\* getBatchTrackMetadata once the reference is extracted
BatchTrack(trackId, env, st) ==
    LET r1 == <<"token">>
        r2 == <<"token", "provider">>
    IN  IF trackId = Null THEN Res("Invalid Spotify track URI", st, <<>>, NoTrack)
        ELSE IF Fails(env, r1) THEN Res("No Spotify access token", st, r1, NoTrack)
        ELSE IF Fails(env, r2) \/ trackId \notin ProviderTrackIds
             THEN Res("Failed to fetch track from Spotify", st, r2, NoTrack)
        ELSE TheOnly({BatchStore(t, env, st)
                         : t \in {AnnotatedTrack(ProviderTrack(trackId), st)}})

\* getBatchTrackMetadata([uri]) for one reference: the reconciliation of
\* that track against the Store, or the error it throws
getBatchTrackMetadata(session, uri, env, st) ==
    IF checkAuth(session) # "ok" THEN Res(checkAuth(session), st, <<>>, NoTrack)
    ELSE TheOnly({BatchTrack(trackId, env, st) : trackId \in {ExtractTrackId(uri)}})

\* the tracks the admin page loads from the Store st, in the order entered
LoadedIds == <<T1, T2>>
LoadTracks(st) ==
    [i \in DOMAIN LoadedIds |->
        WithParsed(AnnotatedTrack(ProviderTrack(LoadedIds[i]), st), <<>>)]

----------------------------------------------------------------------------
(* Direct invocations of the server operations, by any caller *)

NoResp == [op |-> "none", session |-> NoSession, payload |-> BadPayload,
           env |-> EnvOk, result |-> "none", status |-> 0, value |-> Null,
           trackId |-> Null, repeat |-> FALSE]

\* no handler runs for any track
Idle == [pc |-> "idle", track |-> NoTrack, list |-> <<>>, composerId |-> Null,
         log |-> <<>>, outcome |-> "none", createdComposer |-> FALSE]
UIIdle == [t \in ProviderTrackIds |-> Idle]

Init ==
    /\ store \in InitStores
    /\ resp = NoResp
    /\ reqs = <<>>
    /\ ncalls = 0
    /\ tracks = LoadTracks(store)
    /\ wf = UIIdle
    /\ clicks = 0

\* one direct call of operation op with outcome r
Called(op, session, payload, env, r, status, trackId) ==
    /\ ncalls' = ncalls + 1
    /\ store' = r.store
    /\ reqs' = r.reqs
    /\ resp' = [op |-> op, session |-> session, payload |-> payload, env |-> env,
                result |-> r.result, status |-> status, value |-> r.value,
                trackId |-> trackId,
                \* history: the previous call succeeded and this one repeats it
                repeat |-> /\ resp.result = "ok" /\ resp.op = op
                           /\ resp.payload = payload /\ resp.env = env]
    /\ UNCHANGED <<tracks, wf, clicks>>

upsertAlbum(callers, bound) ==
    /\ ncalls < bound
    /\ \E s \in callers, p \in AlbumPayloads, env \in Envs :
        \E r \in {addAlbumToDatabase(s, p, env, store)} :
            Called("upsertAlbum", s, p, env, r, 0, Null)

upsertArtists(callers, bound) ==
    /\ ncalls < bound
    /\ \E s \in callers, p \in ArtistPayloads, env \in Envs :
        \E r \in {addArtistsToDatabase(s, p, env, store)} :
            Called("upsertArtists", s, p, env, r, 0, Null)

upsertTrack(callers, bound) ==
    /\ ncalls < bound
    /\ \E s \in callers, p \in TrackPayloads, env \in Envs :
        \E r \in {addTrackToDatabase(s, p, env, store)} :
            Called("upsertTrack", s, p, env, r, 0, Null)

upsertComposer(callers, bound) ==
    /\ ncalls < bound
    /\ \E s \in callers, p \in ComposerPayloads, env \in Envs :
        \E r \in {addComposer(s, p, env, store)} :
            Called("upsertComposer", s, p, env, r, 0, Null)

linkWorkMovementTrack(callers, bound) ==
    /\ ncalls < bound
    /\ \E s \in callers, p \in WorkPayloads, env \in Envs :
        \E r \in {addWorkMovementAndTrack(s, p, env, store)} :
            Called("linkWorkMovementTrack", s, p, env, r, 0, Null)

unlinkTrack(callers, bound) ==
    /\ ncalls < bound
    /\ \E s \in callers, t \in ProviderTrackIds, env \in Envs :
        \E r \in {deleteTrackMetadata(s, t, env, store)} :
            Called("unlinkTrack", s, [trackId |-> t], env, r, 0, Null)

Reconcile(bodies, bound) ==
    /\ ncalls < bound
    /\ \E s \in Sessions, b \in bodies, env \in ResolveEnvs :
        \E r \in {POST_Reconcile(s, b, env, store)} :
            Called("reconcileEndpoint", s, b, env, r, r.status, r.trackId)

\* Any caller, with or without a session, invokes one operation.
Call_upsertAlbum == upsertAlbum(Sessions, MaxCalls)
Call_upsertArtists == upsertArtists(Sessions, MaxCalls)
Call_upsertTrack == upsertTrack(Sessions, MaxCalls)
Call_upsertComposer == upsertComposer(Sessions, MaxCalls)
Call_linkWorkMovementTrack == linkWorkMovementTrack(Sessions, MaxCalls)
Call_unlinkTrack == unlinkTrack(Sessions, MaxCalls)

Call_checkWorkAndMovement ==
    /\ ncalls < MaxCalls
    /\ \E s \in Sessions, q \in WorkQueries, env \in Envs :
        \E r \in {checkWorkAndMovement(s, q, env, store)} :
            Called("checkWorkAndMovement", s, q, env, r, 0, Null)

Call_composerEndpoint ==
    /\ ncalls < MaxCalls
    /\ \E s \in Sessions, p \in ComposerPayloads, env \in Envs :
        \E r \in {POST_Composer(s, p, env, store)} :
            Called("composerEndpoint", s, p, env, r, HttpStatus(r.result), Null)

Call_reconcileEndpoint == Reconcile(FewBodies, MaxCalls)

Next ==
    \/ Call_upsertAlbum
    \/ Call_upsertArtists
    \/ Call_upsertTrack
    \/ Call_upsertComposer
    \/ Call_checkWorkAndMovement
    \/ Call_linkWorkMovementTrack
    \/ Call_unlinkTrack
    \/ Call_composerEndpoint
    \/ Call_reconcileEndpoint

Spec == Init /\ [][Next]_vars

\* The operator invokes write operations one after another.
Write_upsertAlbum == upsertAlbum({OperatorSession}, MaxWrites)
Write_upsertArtists == upsertArtists({OperatorSession}, MaxWrites)
Write_upsertTrack == upsertTrack({OperatorSession}, MaxWrites)
Write_upsertComposer == upsertComposer({OperatorSession}, MaxWrites)
Write_linkWorkMovementTrack == linkWorkMovementTrack({OperatorSession}, MaxWrites)
Write_unlinkTrack == unlinkTrack({OperatorSession}, MaxWrites)

Write_composerEndpoint ==
    /\ ncalls < MaxWrites
    /\ \E p \in ComposerPayloads, env \in Envs :
        \E r \in {POST_Composer(OperatorSession, p, env, store)} :
            Called("composerEndpoint", OperatorSession, p, env, r,
                   HttpStatus(r.result), Null)

NextWrite ==
    \/ Write_upsertAlbum
    \/ Write_upsertArtists
    \/ Write_upsertTrack
    \/ Write_upsertComposer
    \/ Write_linkWorkMovementTrack
    \/ Write_unlinkTrack
    \/ Write_composerEndpoint

SpecWrite == Init /\ [][NextWrite]_vars

\* One request to the reconciliation route, with any body.
Resolve_reconcileEndpoint == Reconcile(AllBodies, 1)

NextResolve == Resolve_reconcileEndpoint

SpecResolve == Init /\ [][NextResolve]_vars

----------------------------------------------------------------------------
(* Reconciliations in flight together.  A request of the route is taken in  *)
(* three steps, at the awaits that separate them: the gate and the body,   *)
(* the token and the Provider's answer, the Store queries and the answer.  *)

MaxRequests == 2    \* requests in flight together

IdleRequest == [pc |-> "idle", trackId |-> Null, env |-> [failAt |-> 0, status |-> 200, json |-> TRUE],
                result |-> "none", status |-> 0]

\* the request is answered with a; nothing else of it is kept
Answered(a) == [IdleRequest EXCEPT !.pc = "done", !.result = a.result,
                                   !.status = a.status]

InitConcurrent ==
    /\ store \in InitStores
    /\ resp = NoResp
    /\ reqs = <<>>
    /\ ncalls = 0
    /\ tracks = <<>>
    /\ wf = [i \in 1..MaxRequests |-> IdleRequest]
    /\ clicks = 0

\* the handler up to its first external request: the gate, the body and the
\* reference in it
Accept(i) ==
    /\ wf[i].pc = "idle"
    /\ \E s \in Sessions, b \in FewBodies, env \in ResolveEnvs :
          IF checkAuth(s) # "ok" \/ IsBad(b) \/ IsFalsy(b.trackUri) \/ b.type # "string"
             \/ ExtractTrackId(b.trackUri) = Null
          THEN \E a \in {POST_Reconcile(s, b, env, store)} :
                  /\ store' = a.store
                  /\ wf' = [wf EXCEPT ![i] = Answered(a)]
          ELSE /\ store' = store
               /\ wf' = [wf EXCEPT ![i] = [IdleRequest EXCEPT
                                              !.pc = "fetch", !.env = env,
                                              !.trackId = ExtractTrackId(b.trackUri)]]
    /\ UNCHANGED <<resp, reqs, ncalls, tracks, clicks>>

\* the token and the Provider's answer
Fetch(i) ==
    /\ wf[i].pc = "fetch"
    /\ IF \/ Fails(wf[i].env, <<"token">>) \/ Fails(wf[i].env, <<"token", "provider">>)
          \/ ProviderStatus(wf[i].env, wf[i].trackId) # 200
       THEN \E a \in {ReconcileTrack(wf[i].trackId, wf[i].env, store)} :
               /\ store' = a.store
               /\ wf' = [wf EXCEPT ![i] = Answered(a)]
       ELSE /\ store' = store
            /\ wf' = [wf EXCEPT ![i].pc = "queries"]
    /\ UNCHANGED <<resp, reqs, ncalls, tracks, clicks>>

\* the Store queries and the answer assembled from them
Queries(i) ==
    /\ wf[i].pc = "queries"
    /\ \E t \in {AnnotatedTrack(ProviderTrack(wf[i].trackId), store)} :
          \E a \in {ReconcileStore(wf[i].trackId, t, wf[i].env, store)} :
              /\ store' = a.store
              /\ wf' = [wf EXCEPT ![i] = Answered(a)]
    /\ UNCHANGED <<resp, reqs, ncalls, tracks, clicks>>

NextConcurrent ==
    \E i \in 1..MaxRequests :
        \/ Accept(i)
        \/ Fetch(i)
        \/ Queries(i)

SpecConcurrent == InitConcurrent /\ [][NextConcurrent]_vars

----------------------------------------------------------------------------
(* The two writes that ask the Provider, under every answer it can give.   *)
(* fetch() resolves for any HTTP status and the handlers read the body     *)
(* without looking at response.ok: an error body is an answer that carries *)
(* no popularity and no images.                                            *)

\* the answers of one call: a request that throws, or a Provider answer of
\* the given status
ProviderEnvs ==
    {[failAt |-> k, pop |-> 5, status |-> 200] : k \in 0..MaxFailAt}
    \cup {[failAt |-> 0, pop |-> 0, status |-> c] : c \in {200, 404, 429}}

Provider_upsertAlbum ==
    /\ ncalls < MaxWrites
    /\ \E p \in AlbumPayloads, env \in ProviderEnvs :
        \E r \in {addAlbumToDatabase(OperatorSession, p, env, store)} :
            Called("upsertAlbum", OperatorSession, p, env, r, 0, Null)

Provider_upsertArtists ==
    /\ ncalls < MaxWrites
    /\ \E p \in ArtistPayloads, env \in ProviderEnvs :
        \E r \in {addArtistsToDatabase(OperatorSession, p, env, store)} :
            Called("upsertArtists", OperatorSession, p, env, r, 0, Null)

NextProvider ==
    \/ Provider_upsertAlbum
    \/ Provider_upsertArtists

SpecProvider ==
    /\ Init
    /\ [][NextProvider]_vars

----------------------------------------------------------------------------
(* upsertAlbum over release dates: the year it derives and hands to the    *)
(* Store.                                                                  *)

MaxDateLen == 3     \* characters of a release date tried

\* a digit or two, the separator, a letter and a space
DateChars == {"1", "7", "-", "x", " "}
ReleaseDates ==
    UNION {[1..n -> DateChars] : n \in 0..MaxDateLen}
    \cup {Null, ProviderAlbum.release_date}

\* no request throws; the Store refuses a NaN year or keeps it as NULL
YearEnvs == {[failAt |-> 0, pop |-> 5, nan |-> n] : n \in {"reject", "null"}}

Year_upsertAlbum ==
    /\ ncalls < 1
    /\ \E d \in ReleaseDates, env \in YearEnvs :
        \E r \in {addAlbumToDatabase(OperatorSession, AlbumData(d), env, store)} :
            Called("upsertAlbum", OperatorSession, AlbumData(d), env, r, 0, Null)

NextYear == Year_upsertAlbum

SpecYear ==
    /\ Init
    /\ [][NextYear]_vars

----------------------------------------------------------------------------
(* Reconciliation after writes: the operator caches tracks, links and      *)
(* unlinks them by direct calls, none of which fails, and asks the route   *)
(* what the Store holds for a track.                                       *)

ResolveOk == [failAt |-> 0, status |-> 200, json |-> TRUE]

Linked_upsertTrack ==
    /\ ncalls < MaxWrites
    /\ \E p \in TrackPayloads :
        \E r \in {addTrackToDatabase(OperatorSession, p, EnvOk, store)} :
            Called("upsertTrack", OperatorSession, p, EnvOk, r, 0, Null)

Linked_linkWorkMovementTrack ==
    /\ ncalls < MaxWrites
    /\ \E p \in WorkPayloads :
        \E r \in {addWorkMovementAndTrack(OperatorSession, p, EnvOk, store)} :
            Called("linkWorkMovementTrack", OperatorSession, p, EnvOk, r, 0, Null)

Linked_unlinkTrack ==
    /\ ncalls < MaxWrites
    /\ \E t \in ProviderTrackIds :
        \E r \in {deleteTrackMetadata(OperatorSession, t, EnvOk, store)} :
            Called("unlinkTrack", OperatorSession, [trackId |-> t], EnvOk, r, 0, Null)

Linked_reconcileEndpoint ==
    /\ ncalls < MaxWrites
    /\ \E b \in FewBodies :
        \E r \in {POST_Reconcile(OperatorSession, b, ResolveOk, store)} :
            Called("reconcileEndpoint", OperatorSession, b, ResolveOk, r, r.status,
                   r.trackId)

NextLinked ==
    \/ Linked_upsertTrack
    \/ Linked_linkWorkMovementTrack
    \/ Linked_unlinkTrack
    \/ Linked_reconcileEndpoint

SpecLinked ==
    /\ Init
    /\ [][NextLinked]_vars

----------------------------------------------------------------------------
(* The admin table: Analyze, Save and Unlink, one action per await *)

ApiUnchanged == UNCHANGED <<resp, reqs, ncalls>>

TrackOf(id) == tracks[CHOOSE i \in DOMAIN tracks : tracks[i].id = id]

\* one entry of a handler's log: the operation it awaited and how it ended;
\* for composer creation also whether the Store already held a Composer row
\* of that artist when the call was made
Entry(op, r, existed) ==
    [op |-> op, result |-> r.result, existed |-> existed]

\* the handler of w ends: its finally block re-enables the buttons
Finish(w, log, outcome) ==
    [Idle EXCEPT !.log = log, !.outcome = outcome,
                 !.createdComposer =
                     /\ outcome = "error"
                     /\ \/ w.createdComposer
                        \/ \E i \in DOMAIN log :
                               log[i].op = "upsertComposer" /\ log[i].result = "ok"]

\* a failed step is passed over: the handler goes on to the next one
AfterStep_IgnoreFailure(w, entry, nextpc) ==
    [w EXCEPT !.pc = nextpc, !.log = Append(@, entry)]

\* after an awaited call inside the try block: on success the handler goes
\* on to the next step, a thrown error is caught and ends it
AfterStep(w, entry, nextpc) ==
    IF entry.result = "ok"
    THEN [w EXCEPT !.pc = nextpc, !.log = Append(@, entry)]
    ELSE Finish(w, Append(w.log, entry), "error")

\* handleAnalyze: every track without metadata gets what the engine parsed
Analyze ==
    /\ clicks < MaxClicks
    /\ \E i \in DOMAIN tracks : ~hasMetadata(tracks[i])
    /\ \E parsed \in [{tracks[i].id : i \in {j \in DOMAIN tracks : ~hasMetadata(tracks[j])}}
                        -> ParsedOptions] :
          tracks' = [i \in DOMAIN tracks |->
                        IF ~hasMetadata(tracks[i])
                        THEN [tracks[i] EXCEPT !.parsed = <<parsed[tracks[i].id]>>]
                        ELSE tracks[i]]
    /\ clicks' = clicks + 1
    /\ UNCHANGED <<store, wf>>
    /\ ApiUnchanged

\* a click on Save: handleSaveTrack(track) up to its first await
ClickSave(i) ==
    LET track == tracks[i]
        composerName == getComposerName(track)
        workInfo == getWorkInfo(track)
        composerArtist == FindComposerArtist(track, composerName)
        w == wf[track.id]
    IN  /\ clicks < MaxClicks
        /\ (track.parsed # <<>> \/ workInfo # <<>>) /\ ~hasMetadata(track)
        /\ w.pc = "idle"
        /\ clicks' = clicks + 1
        /\ wf' = [wf EXCEPT ![track.id] =
                    IF composerName = Null \/ workInfo = <<>> THEN w
                    ELSE IF composerArtist = <<>> THEN Finish(w, <<>>, "error")
                    ELSE [pc |-> "album", track |-> track, list |-> tracks,
                          composerId |-> composerArtist[1].composerId,
                          log |-> <<>>, outcome |-> "saving",
                          createdComposer |-> w.createdComposer]]
        /\ UNCHANGED <<store, tracks>>
        /\ ApiUnchanged

SaveAlbum(t) ==
    LET w == wf[t]
        album == w.track.album
    IN  /\ w.pc = "album"
        /\ IF album.inSpotifyAlbumsTable
           THEN wf' = [wf EXCEPT ![t].pc = "artists"] /\ UNCHANGED store
           ELSE \E env \in Envs :
                   \E r \in {addAlbumToDatabase(OperatorSession,
                                [id |-> album.id, name |-> album.name,
                                 release_date |-> album.release_date,
                                 popularity |-> album.popularity,
                                 images |-> album.images], env, store)} :
                       /\ store' = r.store
                       /\ wf' = [wf EXCEPT ![t] =
                                    AfterStep(w, Entry("upsertAlbum", r, FALSE),
                                              "artists")]
        /\ UNCHANGED <<tracks, clicks>>
        /\ ApiUnchanged

SaveArtists(t) ==
    LET w == wf[t]
        artistsToSave == SelectSeq(w.track.artists, LAMBDA a : ~a.inSpotifyArtistsTable)
    IN  /\ w.pc = "artists"
        /\ IF artistsToSave = <<>>
           THEN wf' = [wf EXCEPT ![t].pc = "composer"] /\ UNCHANGED store
           ELSE \E env \in Envs :
                   \E r \in {addArtistsToDatabase(OperatorSession,
                                [i \in DOMAIN artistsToSave |->
                                    [id |-> artistsToSave[i].id,
                                     name |-> artistsToSave[i].name]], env, store)} :
                       /\ store' = r.store
                       /\ wf' = [wf EXCEPT ![t] =
                                    AfterStep(w, Entry("upsertArtists", r, FALSE),
                                              "composer")]
        /\ UNCHANGED <<tracks, clicks>>
        /\ ApiUnchanged

SaveComposer(t) ==
    LET w == wf[t]
        composerName == getComposerName(w.track)
        composerArtist == FindComposerArtist(w.track, composerName)[1]
    IN  /\ w.pc = "composer"
        /\ IF ~IsFalsy(w.composerId)
           THEN wf' = [wf EXCEPT ![t].pc = "track"] /\ UNCHANGED store
           ELSE \E env \in Envs :
                   \E r \in {addComposer(OperatorSession,
                                [spotifyArtistId |-> composerArtist.id,
                                 name |-> composerName], env, store)} :
                   LET existed == \E k \in DOMAIN store.composer :
                                      store.composer[k].spotifyArtistId = composerArtist.id
                   IN  /\ store' = r.store
                       /\ wf' = [wf EXCEPT ![t] =
                                    AfterStep([w EXCEPT !.composerId = r.value],
                                              Entry("upsertComposer", r, existed),
                                              "track")]
        /\ UNCHANGED <<tracks, clicks>>
        /\ ApiUnchanged

SaveTrack(t) ==
    LET w == wf[t]
        track == w.track
    IN  /\ w.pc = "track"
        /\ IF track.inSpotifyTracksTable
           THEN wf' = [wf EXCEPT ![t].pc = "link"] /\ UNCHANGED store
           ELSE \E env \in Envs :
                   \E r \in {addTrackToDatabase(OperatorSession,
                                [id |-> track.id, name |-> track.name, uri |-> track.uri,
                                 duration_ms |-> track.duration_ms,
                                 track_number |-> track.track_number,
                                 popularity |-> track.popularity,
                                 albumId |-> track.album.id,
                                 artists |-> [i \in DOMAIN track.artists |->
                                                 [id |-> track.artists[i].id,
                                                  name |-> track.artists[i].name]]],
                                env, store)} :
                       /\ store' = r.store
                       /\ wf' = [wf EXCEPT ![t] =
                                    AfterStep(w, Entry("upsertTrack", r, FALSE), "link")]
        /\ UNCHANGED <<tracks, clicks>>
        /\ ApiUnchanged

\* the payload handleSaveTrack hands to addWorkMovementAndTrack
LinkData(w) ==
    LET track == w.track
        composerName == getComposerName(track)
        workInfo == getWorkInfo(track)[1]
        movementInfo == getMovementInfo(track)
        explicit == IF movementInfo = <<>> THEN NullNum ELSE movementInfo[1].number
    IN  [composerId |-> w.composerId,
         formalName |-> workInfo.title,
         nickname |-> workInfo.nickname,
         catalogSystem |-> IF IsFalsy(workInfo.catalogSystem) THEN Null
                           ELSE workInfo.catalogSystem,
         catalogNumber |-> IF IsFalsy(workInfo.catalogNumber) THEN Null
                           ELSE workInfo.catalogNumber,
         key |-> IF track.parsed = <<>> THEN "null" ELSE track.parsed[1].key,
         form |-> IF track.parsed = <<>> THEN "null" ELSE track.parsed[1].form,
         movementNumber |-> IF IsFalsyNum(explicit)
                            THEN InferOnSave(track, w.list, workInfo, composerName)
                            ELSE explicit,
         movementName |-> IF movementInfo = <<>> THEN "null" ELSE movementInfo[1].title,
         yearComposed |-> IF track.parsed = <<>> \/ IsFalsyNum(track.parsed[1].yearComposed)
                          THEN NullNum ELSE track.parsed[1].yearComposed,
         spotifyTrackId |-> track.id]

SaveLink(t) ==
    LET w == wf[t]
    IN  /\ w.pc = "link"
        /\ \E env \in Envs :
              \E r \in {addWorkMovementAndTrack(OperatorSession, LinkData(w), env, store)} :
                  /\ store' = r.store
                  /\ wf' = [wf EXCEPT ![t] =
                               AfterStep(w, Entry("linkWorkMovementTrack", r, FALSE),
                                         "resolve")]
        /\ UNCHANGED <<tracks, clicks>>
        /\ ApiUnchanged

\* the re-resolution that ends both handlers
Refresh(t, pc, outcome) ==
    LET w == wf[t]
    IN  /\ w.pc = pc
        /\ \E env \in Envs :
              \E r \in {getBatchTrackMetadata(OperatorSession, w.track.uri, env, store)} :
              LET entry == Entry("resolve", r, FALSE)
              IN  /\ store' = r.store
                  /\ IF r.result = "ok"
                     THEN /\ tracks' = ReplaceTrack(tracks, t, r.value, w.track.parsed)
                          /\ wf' = [wf EXCEPT ![t] =
                                       Finish(w, Append(w.log, entry), outcome)]
                     ELSE /\ UNCHANGED tracks
                          /\ wf' = [wf EXCEPT ![t] =
                                       Finish(w, Append(w.log, entry), "error")]
        /\ UNCHANGED clicks
        /\ ApiUnchanged

SaveResolve(t) == Refresh(t, "resolve", "Saved")

\* a click on Unlink: handleUnlink(track) up to its first await
ClickUnlink(i) ==
    LET track == tracks[i]
        w == wf[track.id]
    IN  /\ clicks < MaxClicks
        /\ hasMetadata(track)
        /\ w.pc = "idle"
        /\ clicks' = clicks + 1
        /\ wf' = [wf EXCEPT ![track.id] =
                    [pc |-> "unlink", track |-> track, list |-> tracks,
                     composerId |-> Null, log |-> <<>>, outcome |-> "unlinking",
                     createdComposer |-> w.createdComposer]]
        /\ UNCHANGED <<store, tracks>>
        /\ ApiUnchanged

UnlinkDelete(t) ==
    LET w == wf[t]
    IN  /\ w.pc = "unlink"
        /\ \E env \in Envs :
              \E r \in {deleteTrackMetadata(OperatorSession, t, env, store)} :
                  /\ store' = r.store
                  /\ wf' = [wf EXCEPT ![t] =
                               AfterStep(w, Entry("unlinkTrack", r, FALSE),
                                         "unlinkResolve")]
        /\ UNCHANGED <<tracks, clicks>>
        /\ ApiUnchanged

UnlinkResolve(t) == Refresh(t, "unlinkResolve", "Unlinked")

NextUI ==
    \/ Analyze
    \/ \E i \in DOMAIN tracks : ClickSave(i)
    \/ \E t \in ProviderTrackIds : SaveAlbum(t)
    \/ \E t \in ProviderTrackIds : SaveArtists(t)
    \/ \E t \in ProviderTrackIds : SaveComposer(t)
    \/ \E t \in ProviderTrackIds : SaveTrack(t)
    \/ \E t \in ProviderTrackIds : SaveLink(t)
    \/ \E t \in ProviderTrackIds : SaveResolve(t)
    \/ \E i \in DOMAIN tracks : ClickUnlink(i)
    \/ \E t \in ProviderTrackIds : UnlinkDelete(t)
    \/ \E t \in ProviderTrackIds : UnlinkResolve(t)

SpecUI == Init /\ [][NextUI]_vars

----------------------------------------------------------------------------
(* Movement inference over arbitrary loaded lists *)

MaxList == 3        \* tracks in a loaded list

\* the i-th track of a loaded list, at album position tn:
\*   parsed       analysed, the work of Parsed, no explicit movement number
\*   explicit     analysed, the same work, explicit movement number 2
\*   parsedOther  analysed, same catalog entry, another composer
\*   linked       linked in the Store to the same work
\*   linkedOther  linked in the Store to the same catalog entry of another composer
\*   otherWork    analysed, another catalog number
\*   otherAlbum   analysed, the same work, on another album
InferTrack(i, tn, kind) ==
    LET composer == IF kind \in {"parsedOther", "linkedOther"}
                    THEN <<"H","a","y","d","n">> ELSE Name_Composer
        number == IF kind = "otherWork" THEN <<"1","0","0","8">> ELSE Cat_Number
        linked == kind \in {"linked", "linkedOther"}
        id == <<"t">> \o NumText(i)
    IN  [id |-> id,
         track_number |-> tn,
         album |-> [id |-> IF kind = "otherAlbum" THEN <<"a","2">> ELSE AL],
         parsed |-> IF linked THEN <<>>
                    ELSE <<[Parsed(IF kind = "explicit" THEN 2 ELSE NullNum)
                               EXCEPT !.composerName = composer,
                                      !.catalogNumber = number]>>,
         dbData |->
            IF linked
            THEN [works |-> <<[catalogSystem |-> Cat_System, catalogNumber |-> number,
                               nickname |-> "null", title |-> "Cello Suite No. 1"]>>,
                  composers |-> <<[name |-> composer]>>,
                  movements |-> <<[number |-> 1, title |-> "null"]>>,
                  trackMovements |-> <<[spotifyTrackId |-> id]>>]
            ELSE [works |-> <<>>, composers |-> <<>>, movements |-> <<>>,
                  trackMovements |-> <<>>]]

InitInfer ==
    /\ store = EmptyStore
    /\ resp = NoResp
    /\ reqs = <<>>
    /\ ncalls = 0
    \* the loaded lists tried: up to MaxList tracks at album positions 3, 5, 7
    /\ LET options ==
               ({"parsed", "linked"} \X {3, 5, 7})
               \cup {<<"explicit", 5>>, <<"parsedOther", 5>>, <<"linkedOther", 3>>,
                     <<"otherWork", 3>>, <<"otherAlbum", 3>>}
       IN  tracks \in UNION {{[i \in 1..n |-> InferTrack(i, f[i][2], f[i][1])]
                                  : f \in [1..n -> options]} : n \in 1..MaxList}
    /\ wf = UIIdle
    /\ clicks = 0

\* the table renders the inferred movement number of a track
Infer_getInferredMovement ==
    /\ ncalls = 0
    /\ \E i \in DOMAIN tracks :
          resp' = [NoResp EXCEPT !.op = "getInferredMovement",
                                 !.trackId = tracks[i].id,
                                 !.value = getInferredMovement(tracks[i], tracks)]
    /\ ncalls' = 1
    /\ UNCHANGED <<store, reqs, tracks, wf, clicks>>

\* handleSaveTrack computes the movement number it hands to the link step
Infer_handleSaveTrack ==
    /\ ncalls = 0
    /\ \E i \in DOMAIN tracks :
          LET track == tracks[i]
              composerName == getComposerName(track)
              workInfo == getWorkInfo(track)
              movementInfo == getMovementInfo(track)
          IN  /\ ~hasMetadata(track)
              /\ composerName # Null /\ workInfo # <<>>
              /\ movementInfo = <<>> \/ IsFalsyNum(movementInfo[1].number)
              /\ resp' = [NoResp EXCEPT !.op = "handleSaveTrack",
                                        !.trackId = track.id,
                                        !.value = InferOnSave(track, tracks, workInfo[1],
                                                              composerName)]
    /\ ncalls' = 1
    /\ UNCHANGED <<store, reqs, tracks, wf, clicks>>

NextInfer ==
    \/ Infer_getInferredMovement
    \/ Infer_handleSaveTrack

SpecInfer == InitInfer /\ [][NextInfer]_vars

----------------------------------------------------------------------------
(* The link step of handleSaveTrack over the loaded lists it can meet: the *)
(* payload it builds from the track, the list and the composer's slug, and *)
(* the call of addWorkMovementAndTrack with it.                            *)

MaxLinkList == 2    \* tracks in a list whose link step is taken

\* a loaded track of the work of Parsed: analysed without or with an explicit
\* movement number, analysed as a work without a catalog system, or linked
LinkTrack(i, tn, kind) ==
    IF kind = "noCatalog"
    THEN [InferTrack(i, tn, "parsed") EXCEPT !.parsed = <<ParsedNoCatalog>>]
    ELSE InferTrack(i, tn, kind)

LinkLists ==
    LET options == {"parsed", "explicit", "noCatalog", "linked"} \X {3, 5}
    IN  UNION {{[i \in 1..n |-> LinkTrack(i, f[i][2], f[i][1])] : f \in [1..n -> options]}
                  : n \in 1..MaxLinkList}

InitLink ==
    /\ store \in InitStores
    /\ resp = NoResp
    /\ reqs = <<>>
    /\ ncalls = 0
    /\ tracks \in LinkLists
    /\ wf = UIIdle
    /\ clicks = 0

\* handleSaveTrack reaches its last step for a track that shows the Save
\* button, the composer's slug in hand, and awaits addWorkMovementAndTrack
Link_handleSaveTrack ==
    /\ ncalls = 0
    /\ \E i \in DOMAIN tracks, env \in Envs :
          /\ ~hasMetadata(tracks[i])
          /\ getComposerName(tracks[i]) # Null /\ getWorkInfo(tracks[i]) # <<>>
          /\ \E data \in {LinkData([Idle EXCEPT !.track = tracks[i], !.list = tracks,
                                                !.composerId = Slug_Composer])} :
                \E r \in {addWorkMovementAndTrack(OperatorSession, data, env, store)} :
                    /\ store' = r.store
                    /\ reqs' = r.reqs
                    /\ resp' = [NoResp EXCEPT !.op = "linkWorkMovementTrack",
                                              !.session = OperatorSession,
                                              !.payload = data, !.env = env,
                                              !.result = r.result, !.value = r.value,
                                              !.trackId = tracks[i].id]
    /\ ncalls' = 1
    /\ UNCHANGED <<tracks, wf, clicks>>

NextLink == Link_handleSaveTrack

SpecLink == InitLink /\ [][NextLink]_vars

----------------------------------------------------------------------------
(* The slug derivation over names: the two places that derive a composer   *)
(* id from a name, applied to a name and then to the slug they returned.   *)

MaxNameLen == 3     \* characters of a composer name tried

\* an upper-case and a lower-case letter, a digit, a space, a hyphen and a
\* character the derivation strips
NameChars == {"A", "b", "1", " ", "-", "."}
NamesOfLen(n) == [1..n -> NameChars]
Name_Beethoven ==
    <<"L","u","d","w","i","g"," ","v","a","n"," ","B","e","e","t","h","o","v","e","n">>
SlugNames == UNION {NamesOfLen(n) : n \in 0..MaxNameLen} \cup {Name_Beethoven, Name_Composer}

InitSlug ==
    /\ store = EmptyStore
    /\ resp \in {[NoResp EXCEPT !.payload = [name |-> n]] : n \in SlugNames}
    /\ reqs = <<>>
    /\ ncalls = 0
    /\ tracks = <<>>
    /\ wf = UIIdle
    /\ clicks = 0

\* op derives the id of the name at hand; a second derivation takes the id
\* the first one returned as its name
Derived(op, id) ==
    /\ ncalls < 2
    /\ ncalls = 1 => resp.op = op
    /\ resp' = [resp EXCEPT !.op = op, !.value = id, !.repeat = (ncalls = 1),
                            !.payload = IF ncalls = 1 THEN [name |-> resp.value] ELSE @]
    /\ ncalls' = ncalls + 1
    /\ UNCHANGED <<store, reqs, tracks, wf, clicks>>

Slug_upsertComposer ==
    Derived("upsertComposer",
            slugify(IF ncalls = 1 THEN resp.value ELSE resp.payload.name))

Slug_composerEndpoint ==
    Derived("composerEndpoint",
            POST_Composer_id(IF ncalls = 1 THEN resp.value ELSE resp.payload.name))

NextSlug ==
    \/ Slug_upsertComposer
    \/ Slug_composerEndpoint

SpecSlug == InitSlug /\ [][NextSlug]_vars

----------------------------------------------------------------------------
(* Claims *)

GateErrors == {"Unauthorized", "Access denied"}
Endpoints == {"reconcileEndpoint", "composerEndpoint"}
GatedOps ==
    Endpoints \cup {"upsertAlbum", "upsertArtists", "upsertTrack", "upsertComposer",
                    "checkWorkAndMovement", "linkWorkMovementTrack"}

\* C1: every privileged operation answers a caller without a session with
\* Unauthorized (401 from the two routes) and a caller whose principal is not
\* the operator with Access denied (403), whatever the payload; the gate's
\* own error is what the caller sees, never the operation's generic failure.
C1_GateRejects ==
    resp.op \in GatedOps =>
        /\ ~resp.session.present =>
              /\ resp.result = "Unauthorized"
              /\ resp.op \in Endpoints => resp.status = 401
        /\ (resp.session.present /\ resp.session.name # "benwaffle") =>
              /\ resp.result = "Access denied"
              /\ resp.op \in Endpoints => resp.status = 403

C1_Witness ==
    /\ resp.op = "linkWorkMovementTrack"
    /\ resp.session = OtherSession
    /\ IsBad(resp.payload)
    /\ resp.result = "Access denied"

\* C2: a call the gate rejects issues no token-broker, Provider or Store
\* request and leaves the Store as it was.
C2_RejectedCallTouchesNothing ==
    [][resp'.result \in GateErrors => (store' = store /\ reqs' = <<>>)]_vars

C2_Witness ==
    /\ resp.op = "upsertAlbum"
    /\ resp.result = "Access denied"
    /\ ~IsBad(resp.payload)
    /\ resp.env.failAt = 0
    /\ store = SeededStore
    /\ reqs = <<>>

\* C3: for every identifier of letters and digits, the URI form and the web
\* URL form of a track reference both yield that identifier.
C3_BothFormsYieldId ==
    \A id \in IdInputs :
        (/\ resp.op = "reconcileEndpoint"
         /\ resp.session = OperatorSession
         /\ resp.payload \in {Body(UriForm(id)), Body(UrlForm(id))})
        => resp.trackId = id

C3_Witness ==
    /\ resp.op = "reconcileEndpoint"
    /\ resp.payload = Body(UrlForm(<<"Z","1">>))
    /\ resp.trackId = <<"Z","1">>
    /\ reqs = <<"token", "provider">>

\* the characters an identifier is made of, and the two reference patterns,
\* as the claim states them
C4_IdChar(c) ==
    c \in {"a","b","c","d","e","f","g","h","i","j","k","l","m","n","o","p","q",
           "r","s","t","u","v","w","x","y","z","A","B","C","D","E","F","G","H",
           "I","J","K","L","M","N","O","P","Q","R","S","T","U","V","W","X","Y",
           "Z","0","1","2","3","4","5","6","7","8","9"}

C4_Holds(lit, s) ==
    \E i \in 1..Len(s) :
        /\ i + Len(lit) <= Len(s)
        /\ SubSeq(s, i, i + Len(lit) - 1) = lit
        /\ C4_IdChar(s[i + Len(lit)])

C4_NoReference(body) ==
    \/ IsBad(body)
    \/ body.type # "string"
    \/ (~C4_Holds(Str_spotify_track, body.trackUri)
        /\ ~C4_Holds(Str_open_spotify_track, body.trackUri))

\* C4: a body that matches neither reference pattern (a missing or
\* non-string trackUri included) is answered 400 by the route, and neither
\* the token broker nor the Provider is asked anything for it.
C4_NoReferenceIs400 ==
    (/\ resp.op = "reconcileEndpoint"
     /\ resp.session = OperatorSession
     /\ C4_NoReference(resp.payload))
    => (/\ resp.status = 400
        /\ resp.result \in {"Invalid track URI",
                            "Invalid Spotify track URI or URL format"}
        /\ reqs = <<>>)

C4_Witness ==
    /\ resp.op = "reconcileEndpoint"
    /\ resp.session = OperatorSession
    /\ resp.payload = Body(Str_spotify_track \o <<"-">>)
    /\ resp.env.failAt = 0
    /\ resp.status = 400

\* no two rows of tbl have the same key
UniqueKey(tbl, Key(_)) ==
    \A i, j \in DOMAIN tbl : Key(tbl[i]) = Key(tbl[j]) => i = j

OneRowPerKey(st) ==
    /\ UniqueKey(st.spotifyAlbum, LAMBDA r : r.spotifyId)
    /\ UniqueKey(st.spotifyArtist, LAMBDA r : r.spotifyId)
    /\ UniqueKey(st.spotifyTrack, LAMBDA r : r.spotifyId)
    /\ UniqueKey(st.trackArtists, LAMBDA r : <<r.spotifyTrackId, r.spotifyArtistId>>)
    /\ UniqueKey(st.work, LAMBDA r : r.id)
    /\ UniqueKey(st.movement, LAMBDA r : r.id)
    /\ UniqueKey(st.trackMovement, LAMBDA r : <<r.spotifyTrackId, r.movementId>>)

IdempotentOps == {"upsertAlbum", "upsertArtists", "upsertTrack", "linkWorkMovementTrack"}

\* C7: a second invocation of upsertAlbum, upsertArtists, upsertTrack or
\* linkWorkMovementTrack with the input and the Provider answers of a first,
\* successful one leaves the Store as the first left it, with one row per
\* key in every table.
C7_SecondCallChangesNothing ==
    [][(/\ resp.result = "ok"
        /\ resp.op \in IdempotentOps
        /\ resp'.op = resp.op
        /\ resp'.payload = resp.payload
        /\ resp'.env = resp.env)
       => (/\ resp'.result = "ok"
           /\ store' = store
           /\ OneRowPerKey(store'))]_vars

C7_Witness ==
    /\ resp.op = "linkWorkMovementTrack"
    /\ resp.repeat
    /\ resp.result = "ok"
    /\ Len(store.trackMovement) = 1

\* C8: once upsertComposer has created a composer, a second call for the
\* same name fails with the generic composer failure and leaves the Store,
\* the existing Composer row included, as it was.
C8_SecondComposerFails ==
    [][(/\ resp.result = "ok"
        /\ resp.op \in {"upsertComposer", "composerEndpoint"}
        /\ resp'.op \in {"upsertComposer", "composerEndpoint"}
        /\ ~IsBad(resp'.payload)
        /\ resp'.payload.name = resp.payload.name)
       => (/\ resp'.result = "Failed to add composer"
           /\ resp'.op = "composerEndpoint" => resp'.status = 500
           /\ store' = store)]_vars

C8_Witness ==
    /\ resp.op = "upsertComposer"
    /\ resp.repeat
    /\ resp.result = "Failed to add composer"
    /\ Len(store.composer) = 1
    /\ store.composer[1] = [id |-> Slug_Composer, name |-> Name_Composer,
                            spotifyArtistId |-> AR1]

\* C5: a retry of Save for a track whose earlier, failed save created the
\* composer does not call composer creation while the Composer row is in
\* the Store: the retry re-resolves the track before choosing its steps.
C5_RetrySkipsCreatedComposer ==
    \A t \in ProviderTrackIds :
        wf[t].createdComposer =>
            \A i \in DOMAIN wf[t].log :
                wf[t].log[i].op = "upsertComposer" => ~wf[t].log[i].existed

\* C6: a save invokes upsertComposer for the composer artist only when the
\* Store holds no Composer row of that artist at the time the step runs.
C6_ComposerCreatedOnlyWhenAbsent ==
    \A t \in ProviderTrackIds :
        \A i \in DOMAIN wf[t].log :
            wf[t].log[i].op = "upsertComposer" => ~wf[t].log[i].existed

\* C9: a successful unlinkTrack(t) removes the TrackMovement rows of t and no
\* other row of any table, so every Work and Movement row stays as it was;
\* the re-resolution that follows reports t with empty trackMovements.
C9_UnlinkThenResolve ==
    [][\A t \in ProviderTrackIds :
          /\ (wf[t].pc = "unlink" /\ wf'[t].pc = "unlinkResolve") =>
                /\ store'.trackMovement =
                       SelectSeq(store.trackMovement, LAMBDA r : r.spotifyTrackId # t)
                /\ \A tbl \in DOMAIN store \ {"trackMovement"} : store'[tbl] = store[tbl]
          /\ (wf[t].pc = "unlinkResolve" /\ wf'[t].outcome = "Unlinked") =>
                /\ TrackOf(t)'.dbData.trackMovements = <<>>
                /\ ~hasMetadata(TrackOf(t))'
                /\ store' = store]_vars

C9_Witness ==
    \E t \in ProviderTrackIds :
        /\ wf[t].outcome = "Unlinked"
        /\ TrackOf(t).dbData.trackMovements = <<>>
        /\ store.trackMovement = <<>>
        /\ store.work # <<>>
        /\ store.movement # <<>>

SaveOrder == <<"upsertAlbum", "upsertArtists", "upsertComposer", "upsertTrack",
               "linkWorkMovementTrack", "resolve">>
SavePcs == <<"album", "artists", "composer", "track", "link", "resolve">>
OrderOf(seq, x) == CHOOSE i \in DOMAIN seq : seq[i] = x
IsSaveLog(log) == \A i \in DOMAIN log : log[i].op \in Range(SaveOrder)

\* C10: the operations a save has issued appear in the fixed order
\* upsertAlbum, upsertArtists, upsertComposer, upsertTrack,
\* linkWorkMovementTrack, re-resolve; each was issued after every earlier
\* one had succeeded, and after a failed one the workflow has stopped.
C10_FixedOrder ==
    \A t \in ProviderTrackIds :
        LET log == wf[t].log
        IN  IsSaveLog(log) =>
               /\ \A i \in DOMAIN log : \A j \in DOMAIN log :
                     j < i => /\ OrderOf(SaveOrder, log[j].op) < OrderOf(SaveOrder, log[i].op)
                              /\ log[j].result = "ok"
               /\ \A i \in DOMAIN log : log[i].result # "ok" => wf[t].pc = "idle"
               /\ wf[t].pc \in Range(SavePcs) =>
                     \A i \in DOMAIN log :
                         OrderOf(SaveOrder, log[i].op) < OrderOf(SavePcs, wf[t].pc)

C10_Witness ==
    /\ \E t \in ProviderTrackIds :
          /\ wf[t].outcome = "Saved"
          /\ [i \in DOMAIN wf[t].log |-> wf[t].log[i].op] = SaveOrder
    /\ \E u \in ProviderTrackIds :
          /\ wf[u].outcome = "error"
          /\ Len(wf[u].log) >= 2
          /\ IsSaveLog(wf[u].log)
          /\ wf[u].log[Len(wf[u].log)].result # "ok"

OpsOf(log) == [i \in DOMAIN log |-> log[i].op]

\* C11: a step of the save workflow whose entity the loaded annotation
\* reports present (album, artists, composer, track) writes nothing to the
\* Store and calls no operation, and no save workflow runs for a track that
\* is reported linked: Save on a fully persisted, linked track writes nothing.
C11_PresentStepsSkipped ==
    [][\A t \in ProviderTrackIds :
          LET w == wf[t]
              skipped == store' = store /\ wf'[t].log = w.log
          IN  /\ wf'[t].pc \in Range(SavePcs) =>
                    wf'[t].track.dbData.trackMovements = <<>>
              /\ (w.pc = "album" /\ wf'[t] # w /\ w.track.album.inSpotifyAlbumsTable)
                    => skipped
              /\ (w.pc = "artists" /\ wf'[t] # w
                    /\ \A i \in DOMAIN w.track.artists :
                           w.track.artists[i].inSpotifyArtistsTable)
                    => skipped
              /\ (w.pc = "composer" /\ wf'[t] # w
                    /\ \E i \in DOMAIN w.track.artists :
                           /\ w.track.artists[i].name = getComposerName(w.track)
                           /\ w.track.artists[i].inComposersTable)
                    => skipped
              /\ (w.pc = "track" /\ wf'[t] # w /\ w.track.inSpotifyTracksTable)
                    => skipped]_vars

\* a save of a track whose album, artists, composer and track rows were all
\* reported present has completed with the link step and the re-resolution only
C11_Witness ==
    \E t \in ProviderTrackIds :
        /\ wf[t].outcome = "Saved"
        /\ OpsOf(wf[t].log) = <<"linkWorkMovementTrack", "resolve">>
        /\ hasMetadata(TrackOf(t))

\* the inference answered for a track, by either inference site
InferCalls == {"getInferredMovement", "handleSaveTrack"}
Inferred == resp.op \in InferCalls /\ resp.value # NullNum

\* u is of the same work as track: same album, catalog system, catalog number
\* and composer name, from parsed data or from Store links
SameWork(u, track) ==
    /\ u.album.id = track.album.id
    /\ getWorkInfo(u) # <<>>
    /\ getWorkInfo(u)[1].catalogSystem = getWorkInfo(track)[1].catalogSystem
    /\ getWorkInfo(u)[1].catalogNumber = getWorkInfo(track)[1].catalogNumber
    /\ getComposerName(u) = getComposerName(track)

\* C12: the inferred movement number of a track is its 1-based rank, by
\* ascending album position, within the loaded tracks of the same work, and
\* it is 1 when the track is the only one of its work.
C12_InferredIsRank ==
    Inferred =>
        LET track == TrackOf(resp.trackId)
            group == {i \in DOMAIN tracks : SameWork(tracks[i], track)}
            before == {i \in group : tracks[i].track_number < track.track_number}
            upto == {i \in group : tracks[i].track_number <= track.track_number}
        IN  /\ Cardinality(group) = 1 => resp.value = 1
            /\ Cardinality(before) + 1 <= resp.value
            /\ resp.value <= Cardinality(upto)

\* C13: every track counted in the inference group of a track is in the same
\* album and has the same catalog system, catalog number and composer name.
C13_GroupIsSameWork ==
    Inferred =>
        LET track == TrackOf(resp.trackId)
            counted == SameWorkTracks(track, tracks, getWorkInfo(track)[1],
                                      getComposerName(track))
        IN  \A k \in DOMAIN counted : SameWork(counted[k], track)

\* the identifiers the data model gives the Work and the Movement of a payload
LinkedWorkId(data) ==
    data.composerId \o <<"/">> \o toLowerCase(data.catalogSystem) \o <<"-">>
        \o data.catalogNumber
LinkedMovementId(data) == LinkedWorkId(data) \o <<"/">> \o NumText(data.movementNumber)

\* the Store holds the Work and the Movement of the payload under those
\* identifiers and links the track to that Movement and to no other
LinkedAsStated(data, st) ==
    /\ \E i \in DOMAIN st.work :
          st.work[i].id = LinkedWorkId(data) /\ st.work[i].composerId = data.composerId
    /\ \E i \in DOMAIN st.movement :
          /\ st.movement[i].id = LinkedMovementId(data)
          /\ st.movement[i].workId = LinkedWorkId(data)
    /\ \E i \in DOMAIN st.trackMovement :
          /\ st.trackMovement[i].spotifyTrackId = data.spotifyTrackId
          /\ st.trackMovement[i].movementId = LinkedMovementId(data)

\* no request of the call was made to fail
Undisturbed(env) == env.failAt = 0

\* C14: for every payload the save workflow hands to linkWorkMovementTrack,
\* the operation, when no Store request fails, writes the Work under
\* composerId/lowercase(catalogSystem)-catalogNumber and the Movement under
\* workId/movementNumber and links the track to that Movement.
C14_LinkWritesStatedIds ==
    (resp.op = "linkWorkMovementTrack" /\ Undisturbed(resp.env))
        => /\ resp.result = "ok"
           /\ LinkedAsStated(resp.payload, store)
           /\ resp.value = LinkedMovementId(resp.payload)

\* what does hold: every link step that succeeds has written those identifiers
C14_SuccessfulLinkIds ==
    (resp.op = "linkWorkMovementTrack" /\ resp.result = "ok")
        => LinkedAsStated(resp.payload, store)

C14_SuccessfulLink ==
    /\ resp.op = "linkWorkMovementTrack" /\ resp.result = "ok"
    /\ resp.payload.movementNumber = 2

SlugOps == {"upsertComposer", "composerEndpoint"}
Slug_Beethoven ==
    <<"l","u","d","w","i","g","-","v","a","n","-","b","e","e","t","h","o","v","e","n">>

\* C15: the slug derived from a name is the same from the composer route and
\* from upsertComposer, deriving it again from the slug returns the slug, and
\* "Ludwig van Beethoven" gives "ludwig-van-beethoven".
C15_SlugStableAndShared ==
    resp.op \in SlugOps
        => /\ resp.value = slugify(resp.payload.name)
           /\ resp.value = POST_Composer_id(resp.payload.name)
           /\ resp.repeat => resp.value = resp.payload.name
           /\ resp.payload.name = Name_Beethoven => resp.value = Slug_Beethoven

\* an id has been derived a second time, from the id "a-" of a name such as
\* "A -"
C15_Witness ==
    /\ resp.op \in SlugOps /\ resp.repeat
    /\ resp.value = <<"a", "-">>

\* no two Composer rows of st share a slug
UniqueSlugs(st) ==
    \A i, j \in DOMAIN st.composer :
        st.composer[i].id = st.composer[j].id => i = j

\* C16: no two Composer rows share a slug, and a Composer row, once written,
\* keeps its slug, its name and its provider-artist reference whatever
\* operation runs afterwards.
C16_ComposerRowsStable ==
    []UniqueSlugs(store)
    /\ [][/\ Len(store'.composer) >= Len(store.composer)
          /\ \A i \in DOMAIN store.composer : store'.composer[i] = store.composer[i]]_vars

\* a composer of another name and another provider artist, whose slug is the
\* one of the row in the Store, has been rejected and the row is as it was
C16_Witness ==
    /\ resp.op \in {"upsertComposer", "composerEndpoint"}
    /\ ~IsBad(resp.payload)
    /\ ~IsFalsy(resp.payload.name)
    /\ resp.result = "Failed to add composer"
    /\ resp.env.failAt = 0
    /\ \E i \in DOMAIN store.composer :
          /\ store.composer[i].id = slugify(resp.payload.name)
          /\ store.composer[i].name # resp.payload.name
          /\ store.composer[i].spotifyArtistId # resp.payload.spotifyArtistId

\* C17: no step of a reconciliation changes the Store, whatever the caller,
\* the body, the Provider's answer and the failures met, and whatever other
\* reconciliations are in flight.
C17_ReconcileWritesNothing == [][store' = store]_vars

\* a reconciliation of a track the Store holds has been answered while
\* another one is between the Provider's answer and its Store queries
C17_Witness ==
    /\ store = SeededStore
    /\ \E i, j \in 1..MaxRequests :
          /\ wf[i].pc = "done" /\ wf[i].status = 200
          /\ wf[j].pc = "queries"

\* the generic failure of each write that asks the Provider
WriteFailed(op) ==
    CASE op = "upsertAlbum" -> "Failed to add album to database"
      [] op = "upsertArtists" -> "Failed to add artists to database"

\* a request of the call threw: the token broker, the Provider or the Store
RequestThrew == resp.env.failAt >= 1 /\ Len(reqs) >= resp.env.failAt

\* the Provider was asked and answered with a non-success status
ProviderRefused ==
    /\ resp.env.status # 200
    /\ \E i \in DOMAIN reqs : reqs[i] = "provider"

\* C18: a write that has passed the gate and met a failure of the Provider
\* or of the Store ends with the generic failure of that operation, never
\* with success and never with another message.
C18_FailureIsWriteFailed ==
    (/\ resp.op \in {"upsertAlbum", "upsertArtists"}
     /\ RequestThrew \/ ProviderRefused)
        => resp.result = WriteFailed(resp.op)

\* what does hold: a request that throws ends the write with its generic
\* failure
C18_ThrownIsWriteFailed ==
    (resp.op \in {"upsertAlbum", "upsertArtists"} /\ RequestThrew)
        => resp.result = WriteFailed(resp.op)

C18_RefusedButSucceeded ==
    /\ resp.op = "upsertAlbum" /\ ProviderRefused
    /\ resp.result = "ok"
    /\ \E i \in DOMAIN store.spotifyAlbum : store.spotifyAlbum[i].popularity = NullNum

\* the route was given a reference, had its token, and the Provider
\* answered the track request with a non-success status
ProviderAnsweredError ==
    /\ resp.op = "reconcileEndpoint"
    /\ resp.session = OperatorSession
    /\ resp.trackId # Null
    /\ resp.env.failAt = 0
    /\ ProviderStatus(resp.env, resp.trackId) # 200

\* C19: when the Provider answers the track request of a valid reference
\* with a non-success status, the route answers with that same status and
\* not with the generic 500 failure.
C19_ProviderStatusPassedThrough ==
    ProviderAnsweredError
        => /\ resp.status = ProviderStatus(resp.env, resp.trackId)
           /\ resp.result # "Failed to fetch track metadata"

\* what does hold: the status is passed through when the error body is JSON
C19_JsonErrorPassedThrough ==
    (ProviderAnsweredError /\ resp.env.json)
        => /\ resp.status = ProviderStatus(resp.env, resp.trackId)
           /\ resp.result = "Failed to fetch track from Spotify"

C19_PassedThrough404 ==
    /\ ProviderAnsweredError
    /\ resp.env.status = 200 /\ resp.status = 404

\* the leading segment of a release date, up to its first separator
LeadingSegment(d) ==
    IF \E i \in DOMAIN d : d[i] = "-"
    THEN SubSeq(d, 1, (CHOOSE i \in DOMAIN d :
                          d[i] = "-" /\ \A j \in 1..(i - 1) : d[j] # "-") - 1)
    ELSE d

RECURSIVE DecimalValue(_)
DecimalValue(ds) ==
    IF ds = <<>> THEN 0
    ELSE 10 * DecimalValue(SubSeq(ds, 1, Len(ds) - 1)) + DigitVal(ds[Len(ds)])

\* the year the album row of the last call holds
StoredYear ==
    LET i == CHOOSE k \in DOMAIN store.spotifyAlbum :
                 store.spotifyAlbum[k].spotifyId = resp.payload.id
    IN  store.spotifyAlbum[i].year

\* C20: upsertAlbum stores as year the integer of the leading segment of the
\* release date; for a missing or empty release date, and for a leading
\* segment that holds no number, it stores null and does not fail.
C20_YearOrNull ==
    (resp.op = "upsertAlbum" /\ ~IsBad(resp.payload) /\ resp.env.failAt = 0)
        => LET d == resp.payload.release_date
           IN  /\ resp.result = "ok"
               /\ (d # Null /\ LeadingSegment(d) # <<>>
                      /\ \A i \in DOMAIN LeadingSegment(d) : IsDigit(LeadingSegment(d)[i]))
                     => StoredYear = DecimalValue(LeadingSegment(d))
               /\ (d = Null \/ \A i \in DOMAIN LeadingSegment(d) :
                                   ~IsDigit(LeadingSegment(d)[i]))
                     => StoredYear = NullNum

\* what does hold: the year of a numeric leading segment, and null for a
\* missing or empty release date
C20_NumericOrMissing ==
    (resp.op = "upsertAlbum" /\ ~IsBad(resp.payload) /\ resp.env.failAt = 0)
        => LET d == resp.payload.release_date
           IN  /\ (d # Null /\ LeadingSegment(d) # <<>>
                      /\ \A i \in DOMAIN LeadingSegment(d) : IsDigit(LeadingSegment(d)[i]))
                     => resp.result = "ok" /\ StoredYear = DecimalValue(LeadingSegment(d))
               /\ (d = Null \/ d = <<>>) => resp.result = "ok" /\ StoredYear = NullNum

C20_NonNumericRefused ==
    /\ resp.op = "upsertAlbum"
    /\ resp.payload.release_date = <<"x", "-", "1">>
    /\ resp.result = "Failed to add album to database"

\* the Store holds a TrackMovement row of the track
HasTrackMovement(st, trackId) ==
    \E i \in DOMAIN st.trackMovement : st.trackMovement[i].spotifyTrackId = trackId

\* the route has answered with the annotated view of a track
Resolved == resp.op = "reconcileEndpoint" /\ resp.status = 200

C21_LinkedIffCachedAndTrackMovement ==
    Resolved => (hasMetadata(resp.value)
                    <=> /\ resp.value.inSpotifyTracksTable
                        /\ HasTrackMovement(store, resp.trackId))

C21_LinkedButReportedUnlinked ==
    /\ Resolved
    /\ HasTrackMovement(store, resp.trackId)
    /\ ~hasMetadata(resp.value)

\* C22: for a loaded track with parsed metadata and no explicit movement
\* number, the number handleSaveTrack hands to the link step is the number
\* getInferredMovement shows for that track over the same track list.
C22_SavedIsDisplayed ==
    (resp.op = "handleSaveTrack" /\ TrackOf(resp.trackId).parsed # <<>>)
        => resp.value = getInferredMovement(TrackOf(resp.trackId), tracks)

\* the save of the second of three tracks of one work, the first of them
\* linked in the Store, hands over the number 2
C22_Witness ==
    /\ resp.op = "handleSaveTrack"
    /\ resp.value = 2
    /\ Len(tracks) = 3
    /\ \E i \in DOMAIN tracks : hasMetadata(tracks[i])
    /\ getInferredMovement(TrackOf(resp.trackId), tracks) = 2

\* u carries an explicit parsed movement number
HasExplicit(u) == u.parsed # <<>> /\ ~IsFalsyNum(u.parsed[1].movement)

\* the movement number a save of u links it under: the explicit parsed
\* number when there is one, the inferred one otherwise
EffectiveMovement(u) ==
    IF HasExplicit(u) THEN u.parsed[1].movement ELSE getInferredMovement(u, tracks)

\* the loaded tracks whose parsed metadata names the album, composer, catalog
\* system and catalog number of track
ParsedPeers(track) ==
    {i \in DOMAIN tracks :
        /\ tracks[i].parsed # <<>>
        /\ tracks[i].album.id = track.album.id
        /\ tracks[i].parsed[1].composerName = track.parsed[1].composerName
        /\ tracks[i].parsed[1].catalogSystem = track.parsed[1].catalogSystem
        /\ tracks[i].parsed[1].catalogNumber = track.parsed[1].catalogNumber}

\* C23: among the loaded tracks of one album whose parsed metadata names the
\* same composer and catalog entry, the movement numbers their saves link
\* them under are pairwise different whenever the explicit numbers among
\* them are, so no two of them are linked to the same Movement.
C23_EffectiveNumbersDistinct ==
    (resp.op = "handleSaveTrack" /\ TrackOf(resp.trackId).parsed # <<>>)
        => LET track == TrackOf(resp.trackId)
               peers == ParsedPeers(track)
           IN  (\A i, j \in peers :
                    (HasExplicit(tracks[i]) /\ HasExplicit(tracks[j]) /\ i # j)
                        => tracks[i].parsed[1].movement # tracks[j].parsed[1].movement)
               => \A i \in peers :
                      tracks[i].id # track.id
                          => EffectiveMovement(tracks[i]) # resp.value

\* what does hold: the inferred numbers of such tracks are pairwise different
C23_InferredNumbersDistinct ==
    (resp.op = "handleSaveTrack" /\ TrackOf(resp.trackId).parsed # <<>>)
        => \A i \in ParsedPeers(TrackOf(resp.trackId)) :
               (tracks[i].id # resp.trackId /\ ~HasExplicit(tracks[i]))
                   => getInferredMovement(tracks[i], tracks) # resp.value

C23_InferredMeetsExplicit ==
    /\ resp.op = "handleSaveTrack"
    /\ Len(tracks) = 2
    /\ resp.value = 2
    /\ \E i \in DOMAIN tracks :
          /\ tracks[i].id # resp.trackId
          /\ HasExplicit(tracks[i]) /\ tracks[i].parsed[1].movement = 2
          /\ i \in ParsedPeers(TrackOf(resp.trackId))
====
